---- MODULE Spec2Model ----
(***************************************************************************)
(* MockMate streaming transport: the Server-Sent-Events producer           *)
(* (generate_stream), the client stream consumer (startInterviewStream /   *)
(* sendInterviewAnswerStream in frontend/src/lib/api.ts) and the           *)
(* typewriter playback component (StreamingMessage).                       *)
(*                                                                         *)
(* Text is a sequence of one-character strings.  A JSON body is a short    *)
(* token sequence: "{" type-token data-token "}" stands for                *)
(* {"type": ..., "data": ...}, "{" data-token "}" for an object without a  *)
(* type; every other body is a JSON syntax error.                          *)
(***************************************************************************)
EXTENDS Integers, Sequences, FiniteSets, TLC

VARIABLES
  \* ---- stream consumer (api.ts) ----
  channel,      \* "start" (startInterviewStream) or "respond" (sendInterviewAnswerStream)
  wire,         \* the bytes the server side puts on the response body
  pos,          \* number of bytes of wire the reader has delivered so far
  carry,        \* TextDecoder's held-back incomplete multi-byte sequence
  buffer,       \* let buffer = ""
  pending,      \* events of the running for..of loop not yet yielded
  phase,        \* which for..of loop is running: "main" or "final"
  shouldStop,   \* collectEvents().done of the running main pass
  srcDone,      \* reader.read().done of the running iteration
  cpc,          \* the generator's suspension point
  yielded,      \* events handed to the caller so far
  cancelled,    \* reader.cancel() has been called
  aborted,      \* controller.abort() has been called
  exitKind,     \* how the generator left its loop
  failure,      \* the reason reader.read() rejected with, "" if it has not
  trimmed,      \* number of characters removed from the front of buffer
  decoded,      \* history: dataStr and offset of every frame handed to JSON.parse
  received,     \* history: all the text appended to buffer so far
  returnQueued, \* iterator.return() was called while a next() was pending
  \* ---- channel producer (generate_stream) ----
  endpoint,     \* "start" (/interview/start) or "respond" (/interview/respond-stream)
  ppc,          \* "opening", "streaming", "closing", "closed"
  out,          \* the frames yielded to the StreamingResponse, in order
  accumulated,  \* accumulated / accumulated_question
  hasError,     \* has_error of respond_interview_stream
  fragments,    \* number of fragments the LLM stream has produced
  \* ---- playback (StreamingMessage) ----
  stage,        \* "rendered" (first render done, effects not yet run), "mounted", "unmounted"
  content,      \* prop content
  isStreaming,  \* prop isStreaming
  speed,        \* prop speed
  contentRef,   \* contentRef.current
  charIndexRef, \* charIndexRef.current
  displayed,    \* state displayed
  intervalRef,  \* intervalRef.current: 0 for null, else the interval's period
  timer,        \* period of the interval that is running, 0 when none is
  showCursor,   \* state showCursor
  cursorTimeoutRef, \* cursorTimeoutRef.current holds a pending timeout
  wasStreamingRef,  \* wasStreamingRef.current
  completions,  \* number of calls of onStreamComplete
  ticks,        \* interval callbacks since content or isStreaming last changed,
                \* counted up to the content's length
  sinceTick,    \* characters revealed since the last interval callback by steps
                \* that were not one, while streaming; counted up to 2, and -1
                \* while streaming has seen no callback yet
  \* ---- page (HomePage handlers, InterviewConsole.handleSubmit) ----
  turn,         \* "start" (handleStartInterview), "answer" (handleAnswerSubmit),
                \* "console" (InterviewConsole.handleSubmit with onSubmitStream)
  gpc,          \* where the turn's handler is
  sessionId,    \* state sessionId, <<>> for null
  currentQuestion,      \* state currentQuestion, <<>> for null
  streamingQuestion,    \* state streamingQuestion
  isStreamingQuestion,  \* state isStreamingQuestion
  isProcessing, \* state isProcessing
  consoleStreaming,     \* state isStreaming of InterviewConsole
  consoleAborted,       \* controller.signal.aborted of the callback-style stream
  consoleCalls, \* history: the calls of onComplete and onError made by the
                \* callback-style stream, in order
  history,      \* state history: the roles of the entries appended in this turn
  errorMessage, \* state errorMessage, <<>> for null
  feedback,     \* state feedback is set
  currentSessionId,     \* let currentSessionId of handleStartInterview, <<>> for null
  latestQuestion,       \* let latestQuestion
  interviewEnded,       \* let interviewEnded of handleAnswerSubmit
  finished,     \* let finished of the callback-style sendInterviewAnswerStream
  streamRequests,       \* streaming requests issued in this turn
  fallbackRequests,     \* synchronous requests issued in this turn
  fallbackFailed        \* the synchronous request was rejected

cvars == <<channel, wire, pos, carry, buffer, pending, phase, shouldStop, srcDone,
           cpc, yielded, cancelled, aborted, exitKind, failure, trimmed, decoded, received,
           returnQueued>>

pvars == <<endpoint, ppc, out, accumulated, hasError, fragments>>

mvars == <<stage, content, isStreaming, speed, contentRef, charIndexRef, displayed,
           intervalRef, timer, showCursor, cursorTimeoutRef, wasStreamingRef,
           completions, ticks, sinceTick>>

gvars == <<turn, gpc, sessionId, currentQuestion, streamingQuestion,
           isStreamingQuestion, isProcessing, consoleStreaming, consoleAborted,
           consoleCalls, history, errorMessage, feedback, currentSessionId,
           latestQuestion, interviewEnded, finished, streamRequests, fallbackRequests,
           fallbackFailed>>

vars == <<cvars, pvars, mvars, gvars>>

-----------------------------------------------------------------------------
(* Bounds *)

\* longest sequence of frames on a wire with LF line ends
MaxFrames == 2

\* longest sequence of frames on a wire with CRLF line ends
MaxCrlfFrames == 1

\* most fragments the LLM stream produces for one question
MaxFragments == 3

\* longest content shown by StreamingMessage
MaxLen == 3

\* most calls of onStreamComplete followed
MaxCompletions == 2

-----------------------------------------------------------------------------
(* Characters and string primitives (JavaScript String methods) *)

LF == "\n"
CR == "\r"
SP == " "
ReplacementChar == "uFFFD"
EAcute == "eacute"
LeadByte == "xC3"
ContByte == "xA9"

Whitespace == {LF, CR, SP}

\* s.slice(k), k counted from 0
SliceFrom(s, k) == SubSeq(s, k + 1, Len(s))

\* s.slice(a, b), counted from 0, b exclusive
Slice(s, a, b) == SubSeq(s, a + 1, b)

\* s.startsWith(p)
StartsWith(s, p) == Len(s) >= Len(p) /\ SubSeq(s, 1, Len(p)) = p

\* s.indexOf(p): index of the first occurrence counted from 0, or -1
IndexOf(s, p) ==
  LET hits == {i \in 0..(Len(s) - Len(p)) : SubSeq(s, i + 1, i + Len(p)) = p}
  IN IF hits = {} THEN -1 ELSE CHOOSE i \in hits : \A j \in hits : i <= j

\* s.trim()
Trim(s) ==
  LET keep == {i \in 1..Len(s) : s[i] \notin Whitespace}
  IN IF keep = {} THEN <<>>
     ELSE LET lo == CHOOSE i \in keep : \A j \in keep : i <= j
              hi == CHOOSE i \in keep : \A j \in keep : i >= j
          IN SubSeq(s, lo, hi)

\* text.replace(/\r\n/g, "\n"): every CR that an LF follows is dropped
NormalizeNewlines(s) ==
  LET dropped == {i \in 1..(Len(s) - 1) : s[i] = CR /\ s[i + 1] = LF}
      kept == SelectSeq([i \in 1..Len(s) |-> i], LAMBDA i : i \notin dropped)
  IN [j \in 1..Len(kept) |-> s[kept[j]]]

\* new TextDecoder("utf-8").decode(bytes, { stream: true }): an incomplete
\* multi-byte sequence at the end of a chunk is held back in c.  Byte i gives
\* up to two characters: U+FFFD for a lead byte left incomplete before it, and
\* its own character (a continuation byte completes the lead byte before it).
DecodeStream(c, bytes) ==
  LET n == Len(bytes)
      leadBefore(i) == IF i = 1 THEN c # <<>> ELSE bytes[i - 1] = LeadByte
      broken(i) == IF leadBefore(i) /\ bytes[i] # ContByte THEN ReplacementChar ELSE ""
      own(i) == IF bytes[i] = ContByte
                THEN IF leadBefore(i) THEN EAcute ELSE ReplacementChar
                ELSE IF bytes[i] = LeadByte THEN "" ELSE bytes[i]
      slots == [k \in 1..(2 * n) |->
                  IF k % 2 = 1 THEN broken((k + 1) \div 2) ELSE own(k \div 2)]
  IN [text |-> SelectSeq(slots, LAMBDA x : x # ""),
      carry |-> IF n = 0 THEN c
                ELSE IF bytes[n] = LeadByte THEN <<LeadByte>> ELSE <<>>]

\* decoder.decode(): flush, a held-back incomplete sequence becomes U+FFFD
DecodeFlush(c) == IF c = <<>> THEN <<>> ELSE <<ReplacementChar>>

-----------------------------------------------------------------------------
(* Frames, JSON bodies and events *)

DataPrefix == <<"d", "a", "t", "a", ":">>
DoneLiteral == <<"[", "D", "O", "N", "E", "]">>
Delimiter == <<LF, LF>>

TypeTokens == {"S", "Q", "C", "I", "E", "U"}
\* "1", "x", EAcute: a data value without any of the fields a handler reads;
\* the others stand for an object with one field (DataObject below)
DataTokens == {"1", "x", EAcute, "s1", "Hel", "lo", "Hello", "He", "f", "m", "nf", "db"}

TypeName(tok) ==
  CASE tok = "S" -> "session_started"
    [] tok = "Q" -> "question_chunk"
    [] tok = "C" -> "question_complete"
    [] tok = "I" -> "interview_complete"
    [] tok = "E" -> "error"
    [] OTHER -> "unknown_kind"

\* JSON.parse(dataStr): ok = FALSE stands for the SyntaxError it throws
JSONParse(s) ==
  IF Len(s) = 4 /\ s[1] = "{" /\ s[2] \in TypeTokens /\ s[3] \in DataTokens /\ s[4] = "}"
  THEN [ok |-> TRUE, type |-> TypeName(s[2]), data |-> s[3]]
  ELSE IF Len(s) = 3 /\ s[1] = "{" /\ s[2] \in DataTokens /\ s[3] = "}"
       THEN [ok |-> TRUE, type |-> "", data |-> s[2]]
       ELSE [ok |-> FALSE, type |-> "", data |-> ""]

AllowedTypes(ch) ==
  IF ch = "start"
  THEN {"session_started", "question_chunk", "question_complete", "error"}
  ELSE {"session_started", "question_chunk", "question_complete",
        "interview_complete", "error"}

NoRaw == [type |-> "", data |-> "", text |-> <<>>]

UnknownTypeMessage == "Unknown stream event type"
ParseFailedMessage == "Failed to parse stream event"

\* the body of the try/catch of collectEvents: the event pushed for dataStr
EventOf(ch, dataStr) ==
  LET parsed == JSONParse(dataStr)
  IN IF ~parsed.ok
     THEN [type |-> "error", data |-> "", message |-> ParseFailedMessage,
           raw |-> [type |-> "", data |-> "", text |-> dataStr]]
     ELSE IF parsed.type # "" /\ parsed.type \in AllowedTypes(ch)
          THEN [type |-> parsed.type, data |-> parsed.data, message |-> "", raw |-> NoRaw]
          ELSE [type |-> "error", data |-> "", message |-> UnknownTypeMessage,
                raw |-> [type |-> parsed.type, data |-> parsed.data, text |-> <<>>]]

\* (variant) events.unshift(e)
PushFront(events, e) == <<e>> \o events

\* events.push(e)
Push(events, e) == Append(events, e)

\* (variant) catch (err) { } with nothing pushed
PushParsedSwallow(ch, events, dataStr) ==
  IF JSONParse(dataStr).ok THEN Push(events, EventOf(ch, dataStr)) ELSE events

\* (variant) no else branch: a type that is not allowed pushes nothing
PushParsedDropUnknown(ch, events, dataStr) ==
  LET parsed == JSONParse(dataStr)
  IN IF parsed.ok /\ (parsed.type = "" \/ parsed.type \notin AllowedTypes(ch))
     THEN events
     ELSE Push(events, EventOf(ch, dataStr))

\* try { ... events.push(...) } catch (err) { events.push(...) }
PushParsed(ch, events, dataStr) == Push(events, EventOf(ch, dataStr))

\* (variant) a frame ends at its first newline: indexOf("\n"), slice(index + 1)
RECURSIVE CollectLoopOneNewline(_, _, _, _, _)
CollectLoopOneNewline(ch, buf, events, log, off) ==
  LET delimiterIndex == IndexOf(buf, <<LF>>)
  IN IF delimiterIndex = -1
     THEN [events |-> events, done |-> FALSE, buffer |-> buf, log |-> log, off |-> off]
     ELSE LET rawEvent == Trim(Slice(buf, 0, delimiterIndex))
              rest == SliceFrom(buf, delimiterIndex + 1)
              off2 == off + delimiterIndex + 1
          IN IF rawEvent = <<>> \/ ~StartsWith(rawEvent, DataPrefix)
             THEN CollectLoopOneNewline(ch, rest, events, log, off2)
             ELSE LET dataStr == Trim(SliceFrom(rawEvent, 5))
                  IN IF dataStr = <<>>
                     THEN CollectLoopOneNewline(ch, rest, events, log, off2)
                     ELSE IF dataStr = DoneLiteral
                          THEN [events |-> events, done |-> TRUE, buffer |-> rest,
                                log |-> log, off |-> off2]
                          ELSE CollectLoopOneNewline(ch, rest,
                                 PushParsed(ch, events, dataStr),
                                 Append(log, [raw |-> dataStr, off |-> off]), off2)

\* (variant) buffer = "" when the terminator is found
RECURSIVE CollectLoopClearsAtDone(_, _, _, _, _)
CollectLoopClearsAtDone(ch, buf, events, log, off) ==
  LET delimiterIndex == IndexOf(buf, Delimiter)
  IN IF delimiterIndex = -1
     THEN [events |-> events, done |-> FALSE, buffer |-> buf, log |-> log, off |-> off]
     ELSE LET rawEvent == Trim(Slice(buf, 0, delimiterIndex))
              rest == SliceFrom(buf, delimiterIndex + 2)
              off2 == off + delimiterIndex + 2
          IN IF rawEvent = <<>> \/ ~StartsWith(rawEvent, DataPrefix)
             THEN CollectLoopClearsAtDone(ch, rest, events, log, off2)
             ELSE LET dataStr == Trim(SliceFrom(rawEvent, 5))
                  IN IF dataStr = <<>>
                     THEN CollectLoopClearsAtDone(ch, rest, events, log, off2)
                     ELSE IF dataStr = DoneLiteral
                          THEN [events |-> events, done |-> TRUE, buffer |-> <<>>,
                                log |-> log, off |-> off2]
                          ELSE CollectLoopClearsAtDone(ch, rest,
                                 PushParsed(ch, events, dataStr),
                                 Append(log, [raw |-> dataStr, off |-> off]), off2)

\* collectEvents(): the while loop over buf. log records, for every frame
\* handed to JSON.parse, its dataStr and the frame's start offset (off counts
\* the characters already removed from the stream's front).
RECURSIVE CollectLoop(_, _, _, _, _)
CollectLoop(ch, buf, events, log, off) ==
  LET delimiterIndex == IndexOf(buf, Delimiter)
  IN IF delimiterIndex = -1
     THEN [events |-> events, done |-> FALSE, buffer |-> buf, log |-> log, off |-> off]
     ELSE LET rawEvent == Trim(Slice(buf, 0, delimiterIndex))
              rest == SliceFrom(buf, delimiterIndex + 2)
              off2 == off + delimiterIndex + 2
          IN IF rawEvent = <<>> \/ ~StartsWith(rawEvent, DataPrefix)
             THEN CollectLoop(ch, rest, events, log, off2)
             ELSE LET dataStr == Trim(SliceFrom(rawEvent, 5))
                  IN IF dataStr = <<>>
                     THEN CollectLoop(ch, rest, events, log, off2)
                     ELSE IF dataStr = DoneLiteral
                          THEN [events |-> events, done |-> TRUE, buffer |-> rest,
                                log |-> log, off |-> off2]
                          ELSE CollectLoop(ch, rest, PushParsed(ch, events, dataStr),
                                 Append(log, [raw |-> dataStr, off |-> off]), off2)

collectEvents(ch, buf, off) == CollectLoop(ch, buf, <<>>, <<>>, off)

-----------------------------------------------------------------------------
(* The byte stream offered to the consumer *)

FrameKinds == {"Q", "I", "N", "B", "D"}

\* the bytes of one frame line, as _serialize_event (or a faulty peer) writes it
FrameBytes(k) ==
  CASE k = "Q" -> DataPrefix \o <<"{", "Q", LeadByte, ContByte, "}">>
    [] k = "I" -> DataPrefix \o <<SP, "{", "I", "x", "}">>
    [] k = "N" -> DataPrefix \o <<"{", "x", "}">>
    [] k = "B" -> DataPrefix \o <<"{", "Q">>
    [] k = "S1" -> DataPrefix \o <<SP, "{", "S", "s1", "}">>
    [] k = "H1" -> DataPrefix \o <<SP, "{", "Q", "Hel", "}">>
    [] k = "H2" -> DataPrefix \o <<SP, "{", "Q", "lo", "}">>
    [] k = "C5" -> DataPrefix \o <<SP, "{", "C", "Hello", "}">>
    [] k = "C2" -> DataPrefix \o <<SP, "{", "C", "He", "}">>
    [] k = "I0" -> DataPrefix \o <<SP, "{", "I", "f", "}">>
    [] k = "Er" -> DataPrefix \o <<SP, "{", "E", "m", "}">>
    [] OTHER -> DataPrefix \o <<SP>> \o DoneLiteral

LineEnd(style) == IF style = "crlf" THEN <<CR, LF>> ELSE <<LF>>

RECURSIVE Encode(_, _)
Encode(kinds, style) ==
  IF kinds = <<>> THEN <<>>
  ELSE FrameBytes(Head(kinds)) \o LineEnd(style) \o LineEnd(style)
       \o Encode(Tail(kinds), style)

FrameSeqs(n) == UNION {[1..k -> FrameKinds] : k \in 1..n}

\* every short sequence of frames, and a terminator between two other frames
Wires ==
  {Encode(ks, "lf") : ks \in FrameSeqs(MaxFrames)}
    \cup {Encode(ks, "crlf") : ks \in FrameSeqs(MaxCrlfFrames)}
    \cup {Encode(<<a, "D", b>>, "lf") : a \in FrameKinds \ {"D"}, b \in FrameKinds \ {"D"}}

ReadFailures == {"network error", "terminated"}

\* the wire of a whole turn: session_started{s1}, question_chunk 'Hel',
\* question_chunk 'lo', question_complete{'Hello'}, interview_complete{completed:
\* false}, terminator
HelloWire == Encode(<<"S1", "H1", "H2", "C5", "I0", "D">>, "lf")

\* the wires offered to a page turn: the whole turn, a total_content shorter than
\* the chunks, an error event of the producer, a stream that ends early, a
\* malformed frame, a chunk after the total, and no byte at all
PageWires ==
  {HelloWire,
   Encode(<<"S1", "H1", "C2", "D">>, "lf"),
   Encode(<<"S1", "Er", "D">>, "lf"),
   Encode(<<"S1", "H1">>, "lf"),
   Encode(<<"S1", "B", "D">>, "lf"),
   Encode(<<"C2", "H2", "D">>, "lf"),
   <<>>}

-----------------------------------------------------------------------------
(* Stream consumer: the async generator of startInterviewStream (api.ts      *)
(* 231-273) and of sendInterviewAnswerStream (api.ts 390-432), which differ  *)
(* in allowedTypes only.  One action runs the generator from one suspension   *)
(* point (await reader.read(), yield, await reader.cancel()) to the next.     *)

ConsumerState ==
  [buffer |-> buffer, carry |-> carry, pending |-> pending, phase |-> phase,
   shouldStop |-> shouldStop, srcDone |-> srcDone, cpc |-> cpc, yielded |-> yielded,
   cancelled |-> cancelled, exitKind |-> exitKind,
   trimmed |-> trimmed, decoded |-> decoded, received |-> received]

Commit(st) ==
  /\ buffer' = st.buffer
  /\ carry' = st.carry
  /\ pending' = st.pending
  /\ phase' = st.phase
  /\ shouldStop' = st.shouldStop
  /\ srcDone' = st.srcDone
  /\ cpc' = st.cpc
  /\ yielded' = st.yielded
  /\ cancelled' = st.cancelled
  /\ exitKind' = st.exitKind
  /\ trimmed' = st.trimmed
  /\ decoded' = st.decoded
  /\ received' = st.received

\* one call of collectEvents() on the consumer's buffer
Decoded(st, ch) ==
  LET r == collectEvents(ch, st.buffer, st.trimmed)
  IN [st EXCEPT !.buffer = r.buffer, !.pending = r.events, !.shouldStop = r.done,
                !.trimmed = r.off, !.decoded = @ \o r.log]

\* finally { try { await reader.cancel() } catch {} ... }: up to the await
EnterFinally(st, kind) ==
  [st EXCEPT !.cpc = "cancel", !.cancelled = TRUE, !.pending = <<>>,
             !.exitKind = IF @ = "none" THEN kind ELSE @]

\* yield event: the generator suspends with the event handed to the caller
YieldHead(st) ==
  [st EXCEPT !.yielded = Append(@, Head(st.pending)),
             !.pending = Tail(@), !.cpc = "yield"]

\* (variant) without the return after the final pass: the while loop goes round
\* to reader.read() again
RunFinalLoopNoReturn(st) ==
  IF st.pending # <<>> THEN YieldHead(st) ELSE [st EXCEPT !.cpc = "read"]

\* for (const event of final.events) yield event; return   (api.ts 251-254)
RunFinalLoop(st) ==
  IF st.pending # <<>> THEN YieldHead(st) ELSE EnterFinally(st, "eof")

\* if (done) { buffer += decoder.decode()...; const final = collectEvents() ...
FinalPass(st, ch) ==
  LET flushed == [st EXCEPT !.buffer = @ \o NormalizeNewlines(DecodeFlush(st.carry)),
                            !.received = @ \o NormalizeNewlines(DecodeFlush(st.carry)),
                            !.carry = <<>>, !.phase = "final"]
      final == Decoded(flushed, ch)
  IN RunFinalLoop([final EXCEPT !.shouldStop = st.shouldStop])

\* (variant) without "if (shouldStop) return"
RunMainLoopNoStop(st, ch) ==
  IF st.pending # <<>> THEN YieldHead(st)
  ELSE IF st.srcDone THEN FinalPass(st, ch)
  ELSE [st EXCEPT !.cpc = "read"]

\* for (const event of events) yield event; if (shouldStop) return;
\* if (done) {...}; and round the while loop to the next reader.read()
RunMainLoop(st, ch) ==
  IF st.pending # <<>> THEN YieldHead(st)
  ELSE IF st.shouldStop THEN EnterFinally(st, "terminator")
  ELSE IF st.srcDone THEN FinalPass(st, ch)
  ELSE [st EXCEPT !.cpc = "read"]

Resume(st, ch) ==
  IF st.phase = "final" THEN RunFinalLoop(st) ELSE RunMainLoop(st, ch)

\* the generator suspends at a yield while a return() request is queued behind
\* the next() it has just answered: the request resumes it at once with a
\* return completion, which runs the finally block
Settle(st) ==
  IF returnQueued /\ st.cpc \in {"yield", "catchYield"}
  THEN EnterFinally(st, "abandon")
  ELSE st

\* the first next() of for await: runs to the first await reader.read()
CallerFirstNext ==
  /\ cpc = "start"
  /\ Commit([ConsumerState EXCEPT !.cpc = "read"])
  /\ UNCHANGED <<channel, wire, pos, aborted, failure, returnQueued, pvars, mvars, gvars>>

\* reader.read() resolves with { value, done: false }; a source that has
\* reported its end delivers nothing more
ReadChunk ==
  /\ cpc = "read"
  /\ ~srcDone
  /\ \E n \in 1..(Len(wire) - pos) :
       LET value == SubSeq(wire, pos + 1, pos + n)
           dec == DecodeStream(carry, value)
           st == [ConsumerState EXCEPT
                    !.buffer = @ \o NormalizeNewlines(dec.text),
                    !.received = @ \o NormalizeNewlines(dec.text),
                    !.carry = dec.carry, !.srcDone = FALSE, !.phase = "main"]
       IN /\ pos' = pos + n
          /\ Commit(Settle(RunMainLoop(Decoded(st, channel), channel)))
  /\ UNCHANGED <<channel, wire, aborted, failure, returnQueued, pvars, mvars, gvars>>

\* reader.read() resolves with { value: undefined, done: true }
ReadDone ==
  /\ cpc = "read"
  /\ LET st == [ConsumerState EXCEPT !.srcDone = TRUE, !.phase = "main"]
     IN Commit(Settle(RunMainLoop(Decoded(st, channel), channel)))
  /\ UNCHANGED <<channel, wire, pos, aborted, failure, returnQueued, pvars, mvars, gvars>>

\* (variant) a fixed text in place of the rejection's message
CatchEventGeneric(m) ==
  [type |-> "error", data |-> "", message |-> "Stream failed", raw |-> NoRaw]

\* { type: "error", data: { message: error.message } }
CatchEvent(m) == [type |-> "error", data |-> "", message |-> m, raw |-> NoRaw]

\* reader.read() rejects: catch (error) { yield {...}; return }; a source that
\* has reported its end does not fail afterwards
ReadReject ==
  /\ cpc = "read"
  /\ ~srcDone
  /\ \E m \in ReadFailures :
       /\ failure' = m
       /\ Commit(Settle([ConsumerState EXCEPT
                    !.yielded = Append(@, CatchEvent(m)),
                    !.cpc = "catchYield", !.exitKind = "failure"]))
  /\ UNCHANGED <<channel, wire, pos, aborted, returnQueued, pvars, mvars, gvars>>

\* the caller's for await asks for the next event
CallerNext ==
  /\ cpc \in {"yield", "catchYield"}
  /\ Commit(IF cpc = "catchYield"
            THEN EnterFinally(ConsumerState, "failure")
            ELSE Resume(ConsumerState, channel))
  /\ UNCHANGED <<channel, wire, pos, aborted, failure, returnQueued, pvars, mvars, gvars>>

\* (variant) the cleanup outside a finally block: an early return skips it
CallerReturnNoCleanup ==
  /\ cpc \in {"yield", "catchYield"}
  /\ Commit([ConsumerState EXCEPT !.cpc = "closed", !.pending = <<>>,
                                  !.exitKind = IF @ = "none" THEN "abandon" ELSE @])
  /\ UNCHANGED <<channel, wire, pos, aborted, failure, returnQueued, pvars, mvars, gvars>>

\* the caller leaves its for await early (break or throw): iterator.return()
CallerReturn ==
  /\ cpc \in {"yield", "catchYield"}
  /\ Commit(EnterFinally(ConsumerState, "abandon"))
  /\ UNCHANGED <<channel, wire, pos, aborted, failure, returnQueued, pvars, mvars, gvars>>

\* the caller calls iterator.return() while its next() is pending on
\* reader.read(): the request waits in the generator's queue
CallerReturnPending ==
  /\ cpc = "read"
  /\ ~returnQueued
  /\ returnQueued' = TRUE
  /\ UNCHANGED <<channel, wire, pos, carry, buffer, pending, phase, shouldStop,
                 srcDone, cpc, yielded, cancelled, aborted, exitKind, failure,
                 trimmed, decoded, received, pvars, mvars, gvars>>

\* await reader.cancel() settles (a rejection is swallowed); controller.abort()
CancelSettles ==
  /\ cpc = "cancel"
  /\ cpc' = "closed"
  /\ aborted' = TRUE
  /\ UNCHANGED <<channel, wire, pos, carry, buffer, pending, phase, shouldStop,
                 srcDone, yielded, cancelled, exitKind, failure, trimmed, decoded, received,
                 returnQueued, pvars, mvars, gvars>>

\* the locals of a call before its generator has started
FreshConsumer ==
  /\ pos = 0
  /\ carry = <<>>
  /\ buffer = <<>>
  /\ pending = <<>>
  /\ phase = "main"
  /\ shouldStop = FALSE
  /\ srcDone = FALSE
  /\ cpc = "start"
  /\ yielded = <<>>
  /\ cancelled = FALSE
  /\ aborted = FALSE
  /\ exitKind = "none"
  /\ failure = ""
  /\ trimmed = 0
  /\ decoded = <<>>
  /\ received = <<>>
  /\ returnQueued = FALSE

InitConsumer ==
  /\ channel \in {"start", "respond"}
  /\ wire \in Wires
  /\ FreshConsumer

NextConsumer ==
  \/ CallerFirstNext
  \/ ReadChunk
  \/ ReadDone
  \/ ReadReject
  \/ CallerNext
  \/ CallerReturn
  \/ CallerReturnPending
  \/ CancelSettles

\* no stream open
IdleConsumer ==
  /\ channel = "start"
  /\ wire = <<>>
  /\ pos = 0
  /\ carry = <<>>
  /\ buffer = <<>>
  /\ pending = <<>>
  /\ phase = "main"
  /\ shouldStop = FALSE
  /\ srcDone = FALSE
  /\ cpc = "idle"
  /\ yielded = <<>>
  /\ cancelled = FALSE
  /\ aborted = FALSE
  /\ exitKind = "none"
  /\ failure = ""
  /\ trimmed = 0
  /\ decoded = <<>>
  /\ received = <<>>
  /\ returnQueued = FALSE

-----------------------------------------------------------------------------
(* Channel producer: generate_stream of start_interview and of               *)
(* respond_interview_stream (STREAMING_IMPLEMENTATION_GUIDE.md).  One action  *)
(* is one step of the generator up to its next yield.                        *)

Done == [type |-> "[DONE]", content |-> <<>>]

\* _serialize_event(event_type, data), the text field of data kept
SerializeEvent(eventType, text) == [type |-> eventType, content |-> text]

\* what the LLM stream may hand out: an empty fragment, a letter, a blank
Fragments == {<<>>, <<"a">>, <<SP>>}

\* str(exc)
Exceptions == {<<"b", "o", "o", "m">>}

SessionNotFound == <<"S", "e", "s", "s", "i", "o", "n", SP, "n", "o", "t", SP, "f", "o", "u", "n", "d">>
DatabaseError ==
  <<"D", "a", "t", "a", "b", "a", "s", "e", SP, "e", "r", "r", "o", "r", SP,
    "o", "c", "c", "u", "r", "r", "e", "d">>

\* str.strip()
Strip(s) == Trim(s)

\* _interview_manager.start(...) returns: yield session_started;
\* _get_session returns a session: nothing is yielded
ProducerOpen ==
  /\ ppc = "opening"
  /\ ppc' = "streaming"
  /\ out' = IF endpoint = "start"
            THEN Append(out, SerializeEvent("session_started", <<"s", "1">>))
            ELSE out
  /\ UNCHANGED <<endpoint, accumulated, hasError, fragments, cvars, mvars, gvars>>

\* (variant) respond without the "if not has_error" guard: the main part runs
\* after the error frame
ProducerOpenFailsGoesOn ==
  /\ ppc = "opening"
  /\ ppc' = "streaming"
  /\ \E m \in (IF endpoint = "start" THEN Exceptions
                ELSE {SessionNotFound, DatabaseError}) :
       out' = Append(out, SerializeEvent("error", m))
  /\ hasError' = (endpoint = "respond")
  /\ UNCHANGED <<endpoint, accumulated, fragments, cvars, mvars, gvars>>

\* start: _interview_manager.start raises, caught by except Exception;
\* respond: the session is None, or the lookup raises: has_error = True
ProducerOpenFails ==
  /\ ppc = "opening"
  /\ ppc' = "closing"
  /\ \E m \in (IF endpoint = "start" THEN Exceptions
                ELSE {SessionNotFound, DatabaseError}) :
       out' = Append(out, SerializeEvent("error", m))
  /\ hasError' = (endpoint = "respond")
  /\ UNCHANGED <<endpoint, accumulated, fragments, cvars, mvars, gvars>>

\* async for chunk in ...: one fragment. start skips an empty fragment
\* ("if chunk:"), respond yields it as it comes.
ProducerChunk ==
  /\ ppc = "streaming"
  /\ fragments < MaxFragments
  /\ \E chunk \in Fragments :
       IF endpoint = "start" /\ chunk = <<>>
       THEN UNCHANGED <<out, accumulated>>
       ELSE /\ accumulated' = accumulated \o chunk
            /\ out' = Append(out, SerializeEvent("question_chunk", chunk))
  /\ fragments' = fragments + 1
  /\ UNCHANGED <<endpoint, ppc, hasError, cvars, mvars, gvars>>

\* (variant) question_complete is yielded inside the async for loop
ProducerCompleteKeepsStreaming ==
  /\ ppc = "streaming"
  /\ ppc' = "streaming"
  /\ out' = Append(out, SerializeEvent("question_complete", Strip(accumulated)))
  /\ UNCHANGED <<endpoint, accumulated, hasError, fragments, cvars, mvars, gvars>>

\* the LLM stream is exhausted: yield question_complete
ProducerComplete ==
  /\ ppc = "streaming"
  /\ ppc' = "closing"
  /\ out' = Append(out, SerializeEvent("question_complete", Strip(accumulated)))
  /\ UNCHANGED <<endpoint, accumulated, hasError, fragments, cvars, mvars, gvars>>

\* (variant) the try/except inside the async for loop: the loop goes on after
\* the error frame
ProducerRaiseGoesOn ==
  /\ ppc = "streaming"
  /\ ppc' = "streaming"
  /\ \E m \in Exceptions : out' = Append(out, SerializeEvent("error", m))
  /\ UNCHANGED <<endpoint, accumulated, hasError, fragments, cvars, mvars, gvars>>

\* (variant) the terminator inside the try block: the except branch ends the stream
ProducerRaiseNoDone ==
  /\ ppc = "streaming"
  /\ ppc' = "closed"
  /\ \E m \in Exceptions : out' = Append(out, SerializeEvent("error", m))
  /\ UNCHANGED <<endpoint, accumulated, hasError, fragments, cvars, mvars, gvars>>

\* the LLM stream (or, in respond, recording the answer) raises:
\* except Exception as exc: yield error
ProducerRaise ==
  /\ ppc = "streaming"
  /\ ppc' = "closing"
  /\ \E m \in Exceptions : out' = Append(out, SerializeEvent("error", m))
  /\ UNCHANGED <<endpoint, accumulated, hasError, fragments, cvars, mvars, gvars>>

\* yield "data: [DONE]\n\n", the generator's last statement
ProducerDone ==
  /\ ppc = "closing"
  /\ ppc' = "closed"
  /\ out' = Append(out, Done)
  /\ UNCHANGED <<endpoint, accumulated, hasError, fragments, cvars, mvars, gvars>>

InitProducer ==
  /\ endpoint \in {"start", "respond"}
  /\ ppc = "opening"
  /\ out = <<>>
  /\ accumulated = <<>>
  /\ hasError = FALSE
  /\ fragments = 0

IdleProducer ==
  /\ endpoint = "start"
  /\ ppc = "idle"
  /\ out = <<>>
  /\ accumulated = <<>>
  /\ hasError = FALSE
  /\ fragments = 0

NextProducer ==
  \/ ProducerOpen
  \/ ProducerOpenFails
  \/ ProducerChunk
  \/ ProducerComplete
  \/ ProducerRaise
  \/ ProducerDone

-----------------------------------------------------------------------------
(* Playback: the StreamingMessage component.  A commit runs the cleanup and   *)
(* the effects whose dependencies changed, in source order, as one step; a    *)
(* timer callback is one step.                                               *)

DefaultSpeed == 50
MinInterval == 10

Letters == {"a", "b"}
Contents == UNION {[1..n -> Letters] : n \in 0..MaxLen}
Speeds == {5, DefaultSpeed}

Max(a, b) == IF a >= b THEN a ELSE b

PlaybackState ==
  [contentRef |-> contentRef, charIndexRef |-> charIndexRef, displayed |-> displayed,
   intervalRef |-> intervalRef, timer |-> timer, showCursor |-> showCursor,
   cursorTimeoutRef |-> cursorTimeoutRef, wasStreamingRef |-> wasStreamingRef,
   completions |-> completions]

CommitPlayback(st) ==
  /\ contentRef' = st.contentRef
  /\ charIndexRef' = st.charIndexRef
  /\ displayed' = st.displayed
  /\ intervalRef' = st.intervalRef
  /\ timer' = st.timer
  /\ showCursor' = st.showCursor
  /\ cursorTimeoutRef' = st.cursorTimeoutRef
  /\ wasStreamingRef' = st.wasStreamingRef
  /\ completions' = st.completions

\* (variant) the content effect without the reset for a shorter content
ContentEffectNoReset(st, c, streaming) ==
  IF streaming
  THEN [st EXCEPT !.contentRef = c]
  ELSE [st EXCEPT !.contentRef = c, !.charIndexRef = Len(c), !.displayed = c]

\* (variant) the streaming branch shows the new content at once
ContentEffectJumps(st, c, streaming) ==
  [st EXCEPT !.contentRef = c, !.charIndexRef = Len(c), !.displayed = c]

\* useEffect(..., [content, isStreaming])   (lines 29-42)
ContentEffect(st, c, streaming) ==
  IF streaming
  THEN IF Len(c) < st.charIndexRef
       THEN [st EXCEPT !.contentRef = c, !.charIndexRef = 0, !.displayed = <<>>]
       ELSE [st EXCEPT !.contentRef = c]
  ELSE [st EXCEPT !.contentRef = c, !.charIndexRef = Len(c), !.displayed = c]

\* (variant) step() with the guard charIndexRef + 1 >= target.length
StepStopsShort(st) ==
  IF st.charIndexRef + 1 >= Len(st.contentRef)
  THEN st
  ELSE [st EXCEPT !.charIndexRef = @ + 1,
                  !.displayed = SubSeq(st.contentRef, 1, st.charIndexRef + 1)]

\* (variant) charIndexRef.current += 2, kept within the text
StepSkipsOne(st) ==
  IF st.charIndexRef >= Len(st.contentRef)
  THEN st
  ELSE LET next == IF st.charIndexRef + 2 <= Len(st.contentRef)
                   THEN st.charIndexRef + 2 ELSE Len(st.contentRef)
       IN [st EXCEPT !.charIndexRef = next,
                     !.displayed = SubSeq(st.contentRef, 1, next)]

\* const step = () => {...}   (lines 57-65)
Step(st) ==
  IF st.charIndexRef >= Len(st.contentRef)
  THEN st
  ELSE [st EXCEPT !.charIndexRef = @ + 1,
                  !.displayed = SubSeq(st.contentRef, 1, st.charIndexRef + 1)]

\* (variant) the cleanup forgets clearInterval(intervalId)
TickCleanupKeepsTimer(st) == [st EXCEPT !.intervalRef = 0]

\* the cleanup returned by the tick effect   (lines 72-75)
TickCleanup(st) == [st EXCEPT !.timer = 0, !.intervalRef = 0]

\* useEffect(..., [isStreaming, speed])   (lines 44-76)
TickEffect(st, streaming, sp) ==
  IF ~streaming
  THEN IF st.intervalRef # 0 THEN [st EXCEPT !.timer = 0, !.intervalRef = 0] ELSE st
  ELSE LET cleared == IF st.intervalRef # 0 THEN [st EXCEPT !.timer = 0] ELSE st
           stepped == Step(cleared)
       IN [stepped EXCEPT !.timer = Max(MinInterval, sp),
                          !.intervalRef = Max(MinInterval, sp)]

\* (variant) onStreamComplete?.() without the test of wasStreamingRef
CompletionEffectAlwaysSignals(st, c, streaming) ==
  IF streaming
  THEN [st EXCEPT !.cursorTimeoutRef = FALSE, !.showCursor = TRUE,
                  !.wasStreamingRef = TRUE]
  ELSE LET cleared == IF st.intervalRef # 0
                      THEN [st EXCEPT !.timer = 0, !.intervalRef = 0] ELSE st
       IN [cleared EXCEPT !.charIndexRef = Len(c), !.displayed = c,
                          !.completions = @ + 1,
                          !.showCursor = TRUE, !.cursorTimeoutRef = TRUE,
                          !.wasStreamingRef = FALSE]

\* (variant) wasStreamingRef.current = isStreaming at the top of the effect:
\* the test of the ref sees the new value
CompletionEffectRefFirst(st, c, streaming) ==
  IF streaming
  THEN [st EXCEPT !.cursorTimeoutRef = FALSE, !.showCursor = TRUE,
                  !.wasStreamingRef = TRUE]
  ELSE LET cleared == IF st.intervalRef # 0
                      THEN [st EXCEPT !.timer = 0, !.intervalRef = 0] ELSE st
       IN [cleared EXCEPT !.charIndexRef = Len(c), !.displayed = c,
                          !.showCursor = TRUE, !.cursorTimeoutRef = TRUE,
                          !.wasStreamingRef = FALSE]

\* useEffect(..., [isStreaming, content, onStreamComplete])   (lines 78-109)
CompletionEffect(st, c, streaming) ==
  IF streaming
  THEN [st EXCEPT !.cursorTimeoutRef = FALSE, !.showCursor = TRUE,
                  !.wasStreamingRef = TRUE]
  ELSE LET cleared == IF st.intervalRef # 0
                      THEN [st EXCEPT !.timer = 0, !.intervalRef = 0] ELSE st
       IN [cleared EXCEPT !.charIndexRef = Len(c), !.displayed = c,
                          !.completions = IF st.wasStreamingRef THEN @ + 1 ELSE @,
                          !.showCursor = TRUE, !.cursorTimeoutRef = TRUE,
                          !.wasStreamingRef = FALSE]

\* the effects of one commit, given which dependency lists changed
RunEffects(st, c, streaming, sp, deps1, deps2, deps3, hadCleanup) ==
  LET s0 == IF deps2 /\ hadCleanup THEN TickCleanup(st) ELSE st
      s1 == IF deps1 THEN ContentEffect(s0, c, streaming) ELSE s0
      s2 == IF deps2 THEN TickEffect(s1, streaming, sp) ELSE s1
      s3 == IF deps3 THEN CompletionEffect(s2, c, streaming) ELSE s2
  IN s3

\* the effects of the first commit: every effect runs
Mount ==
  /\ stage = "rendered"
  /\ stage' = "mounted"
  /\ CommitPlayback(RunEffects(PlaybackState, content, isStreaming, speed,
                               TRUE, TRUE, TRUE, FALSE))
  /\ ticks' = 0
  /\ sinceTick' = -1
  /\ UNCHANGED <<content, isStreaming, speed, cvars, pvars, gvars>>

\* the parent renders again with new props; cb: onStreamComplete is a new
\* function, which decides whether the completion effect runs only when content
\* and isStreaming are the same as before
Update ==
  /\ stage = "mounted"
  /\ \E c \in Contents, streaming \in BOOLEAN, sp \in Speeds :
     \E cb \in IF c # content \/ streaming # isStreaming THEN {FALSE} ELSE BOOLEAN :
       LET deps1 == c # content \/ streaming # isStreaming
           deps2 == streaming # isStreaming \/ sp # speed
           deps3 == streaming # isStreaming \/ c # content \/ cb
       IN /\ ~(~deps1 /\ ~deps2 /\ ~deps3)
          /\ \E st \in {RunEffects(PlaybackState, c, streaming, sp, deps1, deps2,
                                    deps3, isStreaming)} :
                /\ st.completions <= MaxCompletions
                /\ CommitPlayback(st)
                /\ sinceTick' =
                      IF isStreaming /\ streaming
                      THEN IF sinceTick >= 0 /\ st.charIndexRef > charIndexRef
                           THEN IF sinceTick + st.charIndexRef - charIndexRef >= 2
                                THEN 2 ELSE sinceTick + st.charIndexRef - charIndexRef
                           ELSE sinceTick
                      ELSE -1
          /\ content' = c
          /\ isStreaming' = streaming
          /\ speed' = sp
          /\ ticks' = IF deps1 THEN 0 ELSE ticks
  /\ UNCHANGED <<stage, cvars, pvars, gvars>>

\* the interval fires: step()
Tick ==
  /\ stage = "mounted"
  /\ timer # 0
  /\ CommitPlayback(Step(PlaybackState))
  /\ ticks' = IF ticks < Len(contentRef) THEN ticks + 1 ELSE ticks
  /\ sinceTick' = 0
  /\ UNCHANGED <<stage, content, isStreaming, speed, cvars, pvars, gvars>>

\* the cursor timeout fires   (lines 102-105)
CursorTimeout ==
  /\ stage = "mounted"
  /\ cursorTimeoutRef
  /\ CommitPlayback([PlaybackState EXCEPT !.showCursor = FALSE,
                                          !.cursorTimeoutRef = FALSE])
  /\ UNCHANGED <<stage, content, isStreaming, speed, ticks, sinceTick, cvars, pvars, gvars>>

\* unmount: the tick effect's cleanup, then the cleanup of lines 111-120
Unmount ==
  /\ stage = "mounted"
  /\ stage' = "unmounted"
  /\ LET s0 == IF isStreaming THEN TickCleanup(PlaybackState) ELSE PlaybackState
         s1 == IF s0.intervalRef # 0 THEN [s0 EXCEPT !.timer = 0] ELSE s0
     IN CommitPlayback([s1 EXCEPT !.cursorTimeoutRef = FALSE])
  /\ UNCHANGED <<content, isStreaming, speed, ticks, sinceTick, cvars, pvars, gvars>>

\* the first render: useState and useRef initial values
InitPlayback ==
  /\ stage = "rendered"
  /\ content \in Contents
  /\ isStreaming \in BOOLEAN
  /\ speed \in Speeds
  /\ contentRef = content
  /\ charIndexRef = 0
  /\ displayed = <<>>
  /\ intervalRef = 0
  /\ timer = 0
  /\ showCursor = FALSE
  /\ cursorTimeoutRef = FALSE
  /\ wasStreamingRef = FALSE
  /\ completions = 0
  /\ ticks = 0
  /\ sinceTick = -1

IdlePlayback ==
  /\ stage = "idle"
  /\ content = <<>>
  /\ isStreaming = FALSE
  /\ speed = DefaultSpeed
  /\ contentRef = <<>>
  /\ charIndexRef = 0
  /\ displayed = <<>>
  /\ intervalRef = 0
  /\ timer = 0
  /\ showCursor = FALSE
  /\ cursorTimeoutRef = FALSE
  /\ wasStreamingRef = FALSE
  /\ completions = 0
  /\ ticks = 0
  /\ sinceTick = -1

NextPlayback ==
  \/ Mount
  \/ Update
  \/ Tick
  \/ CursorTimeout
  \/ Unmount

-----------------------------------------------------------------------------
(* Page: the handlers of HomePage that run one turn (handleStartInterview,    *)
(* handleAnswerSubmit) as the caller of the stream consumer, and              *)
(* InterviewConsole.handleSubmit with the callback-style stream.  The body of *)
(* for await runs between two suspension points of the generator, so handling *)
(* an event and asking for the next one is one step.  null and "" are both    *)
(* written <<>>: the handlers only test these values for truthiness.          *)

Hel == <<"H", "e", "l">>
Lo == <<"l", "o">>
Hello == <<"H", "e", "l", "l", "o">>
He == <<"H", "e">>
StreamSession == <<"s", "1">>
PriorSession == <<"s", "0">>
PriorQuestion == <<"Q", "0">>
FallbackSession == <<"s", "2">>
FallbackPrompt == <<"H", "i">>
FallbackErrors == {<<"d", "o", "w", "n">>}

\* the object a data token stands for: its one field and that field's value
DataObject(tok) ==
  CASE tok = "s1" -> [field |-> "session_id", value |-> StreamSession]
    [] tok = "Hel" -> [field |-> "content", value |-> Hel]
    [] tok = "lo" -> [field |-> "content", value |-> Lo]
    [] tok = "Hello" -> [field |-> "total_content", value |-> Hello]
    [] tok = "He" -> [field |-> "total_content", value |-> He]
    [] tok = "f" -> [field |-> "completed", value |-> <<>>]
    [] tok = "m" -> [field |-> "message", value |-> <<"b", "o", "o", "m">>]
    [] tok = "nf" -> [field |-> "message", value |-> SessionNotFound]
    [] tok = "db" -> [field |-> "message", value |-> DatabaseError]
    [] OTHER -> [field |-> "", value |-> <<>>]

\* event.data && typeof event.data === "object" && f in event.data
\*   ? String(event.data[f] ?? "") : dflt
FieldOr(e, f, dflt) ==
  IF DataObject(e.data).field = f THEN DataObject(e.data).value ELSE dflt

PageState ==
  [sessionId |-> sessionId, currentQuestion |-> currentQuestion,
   streamingQuestion |-> streamingQuestion,
   isStreamingQuestion |-> isStreamingQuestion, isProcessing |-> isProcessing,
   consoleStreaming |-> consoleStreaming, consoleAborted |-> consoleAborted,
   consoleCalls |-> consoleCalls, history |-> history,
   errorMessage |-> errorMessage, feedback |-> feedback,
   currentSessionId |-> currentSessionId, latestQuestion |-> latestQuestion,
   interviewEnded |-> interviewEnded, threw |-> FALSE]

CommitPage(st) ==
  /\ sessionId' = st.sessionId
  /\ currentQuestion' = st.currentQuestion
  /\ streamingQuestion' = st.streamingQuestion
  /\ isStreamingQuestion' = st.isStreamingQuestion
  /\ isProcessing' = st.isProcessing
  /\ consoleStreaming' = st.consoleStreaming
  /\ consoleAborted' = st.consoleAborted
  /\ consoleCalls' = st.consoleCalls
  /\ history' = st.history
  /\ errorMessage' = st.errorMessage
  /\ feedback' = st.feedback
  /\ currentSessionId' = st.currentSessionId
  /\ latestQuestion' = st.latestQuestion
  /\ interviewEnded' = st.interviewEnded

\* case "session_started"   (part_007 333-342)
SessionStarted(st, e) ==
  LET sessionIdFromEvent == FieldOr(e, "session_id", <<>>)
  IN IF sessionIdFromEvent # <<>>
     THEN [st EXCEPT !.currentSessionId = sessionIdFromEvent,
                     !.sessionId = sessionIdFromEvent]
     ELSE st

\* case "question_chunk"   (part_007 343-353, 456-466)
QuestionChunk(st, e) ==
  LET chunk == FieldOr(e, "content", <<>>)
  IN IF chunk # <<>>
     THEN [st EXCEPT !.latestQuestion = @ \o chunk, !.streamingQuestion = @ \o chunk]
     ELSE st

\* (variant) question_complete keeps the text accumulated from the chunks
QuestionCompleteKeepsChunks(st, e) ==
  [st EXCEPT !.currentQuestion = st.latestQuestion, !.isStreamingQuestion = FALSE]

\* case "question_complete"   (part_007 354-364, 467-477)
QuestionComplete(st, e) ==
  LET total == FieldOr(e, "total_content", st.latestQuestion)
  IN [st EXCEPT !.latestQuestion = total, !.streamingQuestion = total,
                !.currentQuestion = total, !.isStreamingQuestion = FALSE]

\* case "interview_complete"   (part_007 478-490)
InterviewComplete(st, e) ==
  [st EXCEPT !.interviewEnded = TRUE, !.isStreamingQuestion = FALSE,
             !.streamingQuestion = <<>>, !.currentQuestion = <<>>,
             !.feedback = (DataObject(e.data).field = "feedback"),
             !.sessionId = <<>>]

\* the switch of handleStartInterview; threw: throw new Error(message)
HandleStartEvent(st, e) ==
  CASE e.type = "session_started" -> SessionStarted(st, e)
    [] e.type = "question_chunk" -> QuestionChunk(st, e)
    [] e.type = "question_complete" -> QuestionComplete(st, e)
    [] e.type = "error" -> [st EXCEPT !.threw = TRUE]
    [] OTHER -> st

\* the switch of handleAnswerSubmit
HandleAnswerEvent(st, e) ==
  CASE e.type = "question_chunk" -> QuestionChunk(st, e)
    [] e.type = "question_complete" -> QuestionComplete(st, e)
    [] e.type = "interview_complete" -> InterviewComplete(st, e)
    [] e.type = "error" -> [st EXCEPT !.threw = TRUE]
    [] OTHER -> st

\* the statements of a handler up to its try block
\* one answered question: setHistory((prev) => [...prev, {role: "interviewer",
\* ...}, {role: "candidate", ...}])
AppendPair(h) == h \o <<"interviewer", "candidate">>

BeginTurn(st) ==
  [st EXCEPT !.isProcessing = TRUE, !.errorMessage = <<>>,
             !.history = IF turn = "start" THEN <<>> ELSE AppendPair(@),
             !.feedback = IF turn = "start" THEN FALSE ELSE @,
             !.currentQuestion = <<>>, !.streamingQuestion = <<>>,
             !.isStreamingQuestion = TRUE,
             !.currentSessionId = <<>>, !.latestQuestion = <<>>,
             !.interviewEnded = FALSE]

\* if (!sessionId) return; if (!askedQuestion) return;   (handleAnswerSubmit)
CanBegin ==
  turn = "answer" =>
    /\ sessionId # <<>>
    /\ (IF currentQuestion # <<>> THEN currentQuestion ELSE streamingQuestion) # <<>>

\* await startInterviewStream(...) returns the iterator; for await pulls
PageOpenStream ==
  /\ gpc = "idle" /\ turn \in {"start", "answer"} /\ CanBegin
  /\ cpc = "start"
  /\ CommitPage(BeginTurn(PageState))
  /\ Commit([ConsumerState EXCEPT !.cpc = "read"])
  /\ gpc' = "streaming"
  /\ streamRequests' = streamRequests + 1
  /\ UNCHANGED <<turn, finished, fallbackRequests, fallbackFailed,
                 channel, wire, pos, aborted, failure, returnQueued, pvars, mvars>>

\* await startInterviewStream(...) throws (fetch rejects, !response.ok,
\* no body): the catch block issues the synchronous request
PageOpenFails ==
  /\ gpc = "idle" /\ turn \in {"start", "answer"} /\ CanBegin
  /\ CommitPage(BeginTurn(PageState))
  /\ gpc' = "fallback"
  /\ streamRequests' = streamRequests + 1
  /\ fallbackRequests' = fallbackRequests + 1
  /\ UNCHANGED <<turn, finished, fallbackFailed, cvars, pvars, mvars>>

\* the body of for await for the event just yielded, then the next pull, or
\* the throw: iterator.return() is awaited before the catch block runs
PageHandleEvent ==
  /\ gpc = "streaming" /\ cpc \in {"yield", "catchYield"}
  /\ LET e == yielded[Len(yielded)]
         st == IF turn = "start" THEN HandleStartEvent(PageState, e)
               ELSE HandleAnswerEvent(PageState, e)
     IN /\ CommitPage(st)
        /\ gpc' = IF st.threw THEN "throwing" ELSE "streaming"
        /\ Commit(IF st.threw THEN EnterFinally(ConsumerState, "abandon")
                  ELSE IF cpc = "catchYield" THEN EnterFinally(ConsumerState, "failure")
                  ELSE Resume(ConsumerState, channel))
  /\ UNCHANGED <<turn, finished, streamRequests, fallbackRequests, fallbackFailed,
                 channel, wire, pos, aborted, failure, returnQueued, pvars, mvars>>

\* the generator has finished: the statements after for await
PageStreamEnds ==
  /\ gpc = "streaming" /\ cpc = "closed"
  /\ LET st == PageState
         started == IF st.currentSessionId # <<>> /\ st.latestQuestion # <<>>
                    THEN [st EXCEPT !.sessionId = st.currentSessionId,
                                    !.currentQuestion = st.latestQuestion,
                                    !.streamingQuestion = st.latestQuestion,
                                    !.isStreamingQuestion = FALSE]
                    ELSE st
         kept == IF st.latestQuestion # <<>>
                 THEN [st EXCEPT !.currentQuestion =
                                    IF @ # <<>> THEN @ ELSE st.latestQuestion,
                                 !.streamingQuestion =
                                    IF @ # <<>> THEN @ ELSE st.latestQuestion]
                 ELSE st
     IN CommitPage(IF turn = "start" THEN [started EXCEPT !.isProcessing = FALSE]
                   ELSE IF st.interviewEnded THEN [st EXCEPT !.isProcessing = FALSE]
                   ELSE [kept EXCEPT !.isStreamingQuestion = FALSE])
  /\ gpc' = "done"
  /\ UNCHANGED <<turn, finished, streamRequests, fallbackRequests, fallbackFailed,
                 cvars, pvars, mvars>>

\* (variant) the catch block reports the error and issues no request
PageCatchGivesUp ==
  /\ gpc = "throwing" /\ cpc = "closed"
  /\ gpc' = "done"
  /\ errorMessage' = <<"f", "a", "i", "l", "e", "d">>
  /\ isStreamingQuestion' = FALSE
  /\ isProcessing' = FALSE
  /\ UNCHANGED <<turn, sessionId, currentQuestion, streamingQuestion, feedback,
                 consoleStreaming, consoleAborted, consoleCalls, history,
                 currentSessionId, latestQuestion, interviewEnded,
                 finished, streamRequests, fallbackRequests, fallbackFailed,
                 cvars, pvars, mvars>>

\* catch (error) { try { const response = await startInterview(...) ...
PageCatch ==
  /\ gpc = "throwing" /\ cpc = "closed"
  /\ gpc' = "fallback"
  /\ fallbackRequests' = fallbackRequests + 1
  /\ UNCHANGED <<turn, sessionId, currentQuestion, streamingQuestion,
                 isStreamingQuestion, isProcessing, consoleStreaming, consoleAborted,
                 consoleCalls, history, errorMessage, feedback,
                 currentSessionId, latestQuestion, interviewEnded, finished,
                 streamRequests, fallbackFailed, cvars, pvars, mvars>>

\* the synchronous request resolves: the rest of the inner try, then finally
FallbackResolves ==
  /\ gpc = "fallback"
  /\ \E completed \in BOOLEAN, prompt \in {<<>>, FallbackPrompt} :
       LET st == PageState
           r == CASE turn = "start" ->
                       [st EXCEPT !.sessionId = FallbackSession,
                                  !.currentQuestion = prompt,
                                  !.streamingQuestion = prompt,
                                  !.isStreamingQuestion = FALSE,
                                  !.errorMessage = <<>>]
                  [] turn = "answer" ->
                       IF completed
                       THEN [st EXCEPT !.feedback = TRUE, !.sessionId = <<>>,
                                       !.currentQuestion = <<>>,
                                       !.streamingQuestion = <<>>,
                                       !.errorMessage = <<>>]
                       ELSE [st EXCEPT !.currentQuestion = prompt,
                                       !.streamingQuestion = prompt,
                                       !.errorMessage = <<>>]
                  [] OTHER ->
                       IF completed
                       THEN [st EXCEPT !.history = AppendPair(@),
                                       !.feedback = TRUE, !.sessionId = <<>>,
                                       !.currentQuestion = <<>>]
                       ELSE IF prompt # <<>>
                            THEN [st EXCEPT !.history = AppendPair(@),
                                            !.currentQuestion = prompt]
                            ELSE [st EXCEPT !.history = AppendPair(@)]
       IN /\ turn = "start" => (~completed /\ prompt # <<>>)
          /\ CommitPage([r EXCEPT !.isStreamingQuestion = FALSE,
                                  !.isProcessing = FALSE])
  /\ gpc' = "done"
  /\ UNCHANGED <<turn, finished, streamRequests, fallbackRequests, fallbackFailed,
                 cvars, pvars, mvars>>

\* (variant) a rejected synchronous request is issued again
FallbackRejectsRetries ==
  /\ gpc = "fallback"
  /\ gpc' = "fallback"
  /\ fallbackRequests' = fallbackRequests + 1
  /\ fallbackFailed' = TRUE
  /\ UNCHANGED <<turn, sessionId, currentQuestion, streamingQuestion,
                 isStreamingQuestion, isProcessing, consoleStreaming, consoleAborted,
                 consoleCalls, history, errorMessage, feedback,
                 currentSessionId, latestQuestion, interviewEnded, finished,
                 streamRequests, cvars, pvars, mvars>>

\* the synchronous request rejects: catch (fallbackError), then finally
FallbackRejects ==
  /\ gpc = "fallback"
  /\ \E message \in FallbackErrors :
       LET st == PageState
           r == CASE turn = "start" ->
                       [st EXCEPT !.errorMessage = message, !.sessionId = <<>>,
                                  !.currentQuestion = <<>>, !.streamingQuestion = <<>>]
                  [] turn = "answer" ->
                       [st EXCEPT !.errorMessage = message,
                                  !.currentQuestion = <<>>, !.streamingQuestion = <<>>]
                  [] OTHER -> [st EXCEPT !.errorMessage = message]
       IN CommitPage([r EXCEPT !.isStreamingQuestion = FALSE, !.isProcessing = FALSE])
  /\ gpc' = "done"
  /\ fallbackFailed' = TRUE
  /\ UNCHANGED <<turn, finished, streamRequests, fallbackRequests,
                 cvars, pvars, mvars>>

\* InterviewConsole.handleSubmit calls onSubmitStream (handleAnswerSubmitStream),
\* which starts the callback-style sendInterviewAnswerStream
ConsoleSubmit ==
  /\ gpc = "idle" /\ turn = "console"
  /\ sessionId # <<>> /\ currentQuestion # <<>>
  /\ CommitPage([PageState EXCEPT !.consoleStreaming = TRUE,
                                  !.consoleAborted = FALSE,
                                  !.isProcessing = TRUE, !.errorMessage = <<>>])
  /\ gpc' = "cread"
  /\ finished' = FALSE
  /\ streamRequests' = streamRequests + 1
  /\ UNCHANGED <<turn, fallbackRequests, fallbackFailed, cvars, pvars, mvars>>

\* onError of handleAnswerSubmitStream, then onError of handleSubmit: await
\* onSubmit(value), which is handleAnswerSubmit up to its request
ConsoleOnError(st) ==
  [st EXCEPT !.consoleCalls = Append(@, "error"),
             !.consoleStreaming = FALSE, !.isProcessing = TRUE, !.errorMessage = <<>>]

\* reader.read() of the callback-style stream resolves; what the chunk holds:
\* content only, a completed response, completed: true without a response
\* object, a body that JSON.parse rejects, or done: true.  The read of an
\* aborted request does not resolve.
ConsoleRead ==
  /\ gpc = "cread" /\ ~finished /\ ~consoleAborted
  /\ \E outcome \in {"content", "completed", "noresponse", "garbled", "done"},
        completed \in BOOLEAN, prompt \in {<<>>, FallbackPrompt} :
       LET st == PageState
           \* onComplete of handleAnswerSubmitStream up to its first use of response
           called == [st EXCEPT !.consoleCalls = Append(@, "complete"),
                                !.history = AppendPair(@),
                                !.consoleAborted = TRUE]
           done == IF completed
                   THEN [called EXCEPT !.feedback = TRUE, !.currentQuestion = <<>>,
                                   !.sessionId = <<>>, !.isProcessing = FALSE,
                                   !.consoleStreaming = FALSE]
                   ELSE IF prompt # <<>>
                        THEN [called EXCEPT !.currentQuestion = prompt,
                                        !.isProcessing = FALSE,
                                        !.consoleStreaming = FALSE]
                        ELSE [called EXCEPT !.isProcessing = FALSE,
                                        !.consoleStreaming = FALSE]
       IN CASE outcome = "content" ->
                 /\ CommitPage(st)
                 /\ UNCHANGED <<gpc, finished, fallbackRequests>>
            [] outcome = "completed" ->
                 /\ CommitPage(done)
                 /\ gpc' = "done" /\ finished' = TRUE
                 /\ UNCHANGED fallbackRequests
            \* response.completed throws on undefined inside onComplete: the
            \* catch around the callbacks calls safeOnError
            [] outcome = "noresponse" ->
                 /\ CommitPage(ConsoleOnError(called))
                 /\ gpc' = "fallback" /\ finished' = TRUE
                 /\ fallbackRequests' = fallbackRequests + 1
            [] outcome = "garbled" ->
                 /\ CommitPage(ConsoleOnError([st EXCEPT !.consoleAborted = TRUE]))
                 /\ gpc' = "fallback" /\ finished' = TRUE
                 /\ fallbackRequests' = fallbackRequests + 1
            [] OTHER ->
                 /\ CommitPage(st)
                 /\ gpc' = "stalled"
                 /\ UNCHANGED <<finished, fallbackRequests>>
  /\ UNCHANGED <<turn, streamRequests, fallbackFailed, cvars, pvars, mvars>>

\* fetch or reader.read() rejects, or the response is not ok: .catch(safeOnError)
ConsoleStreamRejects ==
  /\ gpc = "cread" /\ ~finished
  /\ CommitPage(ConsoleOnError(PageState))
  /\ gpc' = "fallback"
  /\ fallbackRequests' = fallbackRequests + 1
  /\ UNCHANGED <<turn, finished, streamRequests, fallbackFailed, cvars, pvars, mvars>>

\* the cleanup of InterviewConsole's unmount effect: streamCancelRef.current(),
\* which is () => controller.abort(), while the stream has not called
\* onComplete or onError (both reset streamCancelRef to null)
ConsoleCancel ==
  /\ turn = "console" /\ gpc \in {"cread", "stalled"}
  /\ ~consoleAborted
  /\ consoleAborted' = TRUE
  /\ UNCHANGED <<turn, gpc, sessionId, currentQuestion, streamingQuestion,
                 isStreamingQuestion, isProcessing, consoleStreaming,
                 consoleCalls, history,
                 errorMessage, feedback, currentSessionId, latestQuestion,
                 interviewEnded, finished, streamRequests, fallbackRequests,
                 fallbackFailed, cvars, pvars, mvars>>

\* the page before a turn: no session before a start, a session and its
\* question before an answer
InitPage ==
  /\ turn \in {"start", "answer", "console"}
  /\ gpc = "idle"
  /\ sessionId = IF turn = "start" THEN <<>> ELSE PriorSession
  /\ currentQuestion = IF turn = "start" THEN <<>> ELSE PriorQuestion
  /\ streamingQuestion = IF turn = "answer" THEN PriorQuestion ELSE <<>>
  /\ isStreamingQuestion = FALSE
  /\ isProcessing = FALSE
  /\ consoleStreaming = FALSE
  /\ consoleAborted = FALSE
  /\ consoleCalls = <<>>
  /\ history = <<>>
  /\ errorMessage = <<>>
  /\ feedback = FALSE
  /\ currentSessionId = <<>>
  /\ latestQuestion = <<>>
  /\ interviewEnded = FALSE
  /\ finished = FALSE
  /\ streamRequests = 0
  /\ fallbackRequests = 0
  /\ fallbackFailed = FALSE

IdlePage ==
  /\ turn = "none"
  /\ gpc = "off"
  /\ sessionId = <<>>
  /\ currentQuestion = <<>>
  /\ streamingQuestion = <<>>
  /\ isStreamingQuestion = FALSE
  /\ isProcessing = FALSE
  /\ consoleStreaming = FALSE
  /\ consoleAborted = FALSE
  /\ consoleCalls = <<>>
  /\ history = <<>>
  /\ errorMessage = <<>>
  /\ feedback = FALSE
  /\ currentSessionId = <<>>
  /\ latestQuestion = <<>>
  /\ interviewEnded = FALSE
  /\ finished = FALSE
  /\ streamRequests = 0
  /\ fallbackRequests = 0
  /\ fallbackFailed = FALSE

NextPage ==
  \/ PageOpenStream
  \/ PageOpenFails
  \/ ReadChunk
  \/ ReadDone
  \/ ReadReject
  \/ CancelSettles
  \/ PageHandleEvent
  \/ PageStreamEnds
  \/ PageCatch
  \/ FallbackResolves
  \/ FallbackRejects
  \/ ConsoleSubmit
  \/ ConsoleRead
  \/ ConsoleStreamRejects
  \/ ConsoleCancel

-----------------------------------------------------------------------------
(* A refused respond turn end to end: the body that generate_stream of      *)
(* respond_interview_stream writes when has_error is set, read by the       *)
(* for await loop of testSSEClient. *)

\* the data token json.dumps writes for the message of an error frame
MessageToken(m) ==
  CASE m = SessionNotFound -> "nf"
    [] m = DatabaseError -> "db"
    [] OTHER -> "m"

\* the bytes of one producer frame: f"data: {json.dumps(...)}\n\n"
FrameOf(frame) ==
  (IF frame = Done THEN FrameBytes("D")
   ELSE DataPrefix \o <<SP, "{", "E", MessageToken(frame.content), "}">>)
  \o <<LF, LF>>

RECURSIVE BodyOf(_)
BodyOf(frames) ==
  IF frames = <<>> THEN <<>> ELSE FrameOf(Head(frames)) \o BodyOf(Tail(frames))

\* sendInterviewAnswerStream(testPayload) resolves: the response body is what
\* the producer wrote for the refused request
OpenRespondStream ==
  /\ cpc = "idle"
  /\ ppc = "closed" /\ hasError
  /\ channel' = "respond"
  /\ wire' = BodyOf(out)
  /\ cpc' = "start"
  /\ UNCHANGED <<pos, carry, buffer, pending, phase, shouldStop, srcDone, yielded,
                 cancelled, aborted, exitKind, failure, trimmed, decoded, received,
                 returnQueued, pvars, mvars, gvars>>

InitRespond ==
  /\ InitProducer /\ endpoint = "respond"
  /\ IdleConsumer /\ IdlePlayback /\ IdlePage

\* the producer, then the loop of testSSEClient, which never leaves early
NextRespond ==
  \/ ProducerOpen
  \/ ProducerOpenFails
  \/ ProducerChunk
  \/ ProducerComplete
  \/ ProducerRaise
  \/ ProducerDone
  \/ OpenRespondStream
  \/ CallerFirstNext
  \/ ReadChunk
  \/ ReadDone
  \/ ReadReject
  \/ CallerNext
  \/ CancelSettles

-----------------------------------------------------------------------------
(* An answer turn on screen: HomePage hands streamingQuestion,               *)
(* isStreamingQuestion and handleQuestionStreamComplete to the console       *)
(* (part_007 668-679), which shows the question through StreamingMessage.    *)

\* HomePage has rendered: the console passes the page's state on as the props
\* content and isStreaming of StreamingMessage, with onStreamComplete a new
\* function of this render, and the effects of the commit run; a completion
\* signal is handleQuestionStreamComplete: setIsProcessing(false)
ConsoleRender ==
  /\ stage = "mounted"
  /\ content # streamingQuestion \/ isStreaming # isStreamingQuestion
  /\ LET deps1 == TRUE
         deps2 == isStreamingQuestion # isStreaming
     IN \E st \in {RunEffects(PlaybackState, streamingQuestion, isStreamingQuestion,
                              speed, deps1, deps2, TRUE, isStreaming)} :
          /\ CommitPlayback(st)
          /\ CommitPage([PageState EXCEPT !.isProcessing =
                            IF st.completions > completions THEN FALSE ELSE @])
  /\ content' = streamingQuestion
  /\ isStreaming' = isStreamingQuestion
  /\ ticks' = 0
  /\ sinceTick' = -1
  /\ UNCHANGED <<stage, speed, turn, gpc, finished, streamRequests, fallbackRequests,
                 fallbackFailed, cvars, pvars>>

\* the props of the render that is on screen are the page's state
InSync == content = streamingQuestion /\ isStreaming = isStreamingQuestion

\* the page before an answer, its question rendered and not streaming
InitScreen ==
  /\ InitPage /\ turn = "answer"
  /\ channel = "respond" /\ wire \in PageWires
  /\ FreshConsumer
  /\ IdleProducer
  /\ stage = "rendered"
  /\ content = streamingQuestion /\ isStreaming = FALSE /\ speed = DefaultSpeed
  /\ contentRef = content
  /\ charIndexRef = 0
  /\ displayed = <<>>
  /\ intervalRef = 0
  /\ timer = 0
  /\ showCursor = FALSE
  /\ cursorTimeoutRef = FALSE
  /\ wasStreamingRef = FALSE
  /\ completions = 0
  /\ ticks = 0
  /\ sinceTick = -1

\* a step of the handler that a network completion resumes: it runs in a later
\* task than the last state change, after React has rendered it
ScreenNetworkStep ==
  /\ stage = "mounted" /\ InSync
  /\ \/ PageOpenStream
     \/ PageOpenFails
     \/ ReadReject
     \/ ReadChunk
     \/ ReadDone
     \/ FallbackResolves
     \/ FallbackRejects

\* a step of the handler that follows without a network completion: it may
\* run before the render of the step before it
ScreenHandlerStep ==
  /\ stage = "mounted"
  /\ \/ CancelSettles
     \/ PageHandleEvent
     \/ PageStreamEnds
     \/ PageCatch

NextScreen ==
  \/ Mount
  \/ ConsoleRender
  \/ Tick
  \/ CursorTimeout
  \/ ScreenNetworkStep
  \/ ScreenHandlerStep

-----------------------------------------------------------------------------
(* Specifications: one per component, the other components idle *)

Init ==
  InitConsumer /\ IdleProducer /\ IdlePlayback /\ IdlePage

Spec == Init /\ [][NextConsumer]_vars

InitProducerOnly ==
  InitProducer /\ IdleConsumer /\ IdlePlayback /\ IdlePage

SpecProducer == InitProducerOnly /\ [][NextProducer]_vars

InitPlaybackOnly ==
  InitPlayback /\ IdleConsumer /\ IdleProducer /\ IdlePage

SpecPlayback == InitPlaybackOnly /\ [][NextPlayback]_vars

\* a page turn: the consumer is the one the handler opens
InitPageTurn ==
  /\ InitPage
  /\ channel = (IF turn = "start" THEN "start" ELSE "respond")
  /\ wire \in (IF turn = "console" THEN {<<>>} ELSE PageWires)
  /\ FreshConsumer
  /\ IdleProducer /\ IdlePlayback

SpecPage == InitPageTurn /\ [][NextPage]_vars

\* a page turn in which reader.read() of the callback-style stream settles and
\* its then or catch callback runs
FairSpecConsole == SpecPage /\ WF_vars(ConsoleRead \/ ConsoleStreamRejects)

SpecRespond == InitRespond /\ [][NextRespond]_vars

SpecScreen == InitScreen /\ [][NextScreen]_vars

\* a stream whose reader.read() settles (it fails, delivers bytes or reports
\* the end), whose caller's for await keeps asking for the next event, and
\* whose reader.cancel() settles
FairSpec ==
  /\ Spec
  /\ WF_vars(CallerFirstNext)
  /\ WF_vars(ReadReject \/ ReadChunk \/ ReadDone)
  /\ WF_vars(CallerNext)
  /\ WF_vars(CancelSettles)

-----------------------------------------------------------------------------
(* Properties of the stream consumer *)

Last(s) == s[Len(s)]
Front(s) == SubSeq(s, 1, Len(s) - 1)

IsPrefix(s, t) == Len(s) <= Len(t) /\ s = SubSeq(t, 1, Len(s))

\* the event a well-formed frame of an allowed type is decoded to
Event(type, tok) == [type |-> type, data |-> tok, message |-> "", raw |-> NoRaw]

\* the events handed on by collectEvents so far, in order: those yielded
\* (without the event synthesized by the catch block) and those still pending
DecoderEvents == (IF failure # "" THEN Front(yielded) ELSE yielded) \o pending

\* the events the consumer yields when text arrives as one single chunk and
\* the byte-source then reports end-of-input
WholeEvents(ch, text) ==
  LET dec == DecodeStream(<<>>, text)
      first == collectEvents(ch, NormalizeNewlines(dec.text), 0)
      again == collectEvents(ch, first.buffer, 0)
      final == collectEvents(ch, again.buffer \o NormalizeNewlines(DecodeFlush(dec.carry)), 0)
  IN IF first.done THEN first.events
     ELSE IF again.done THEN first.events \o again.events
     ELSE first.events \o again.events \o final.events

\* the text a finished run has consumed: all of the wire when it stopped at
\* the terminator, what the byte-source delivered when it reported end-of-input
ConsumedText == IF exitKind = "eof" THEN SubSeq(wire, 1, pos) ELSE wire

HasCR(text) == \E i \in 1..Len(text) : text[i] = CR

\* C1: whatever the partition of the wire text into chunks, a run that ends at
\* the terminator or at end-of-input has yielded the same ordered events as the
\* run that receives the same text as one single chunk.
C1_ChunkingInvariant ==
  (cpc = "closed" /\ exitKind \in {"eof", "terminator"})
    => yielded = WholeEvents(channel, ConsumedText)

\* C1 restricted to wire texts without carriage returns
C1_ChunkingInvariantLF ==
  (cpc = "closed" /\ exitKind \in {"eof", "terminator"} /\ ~HasCR(wire))
    => yielded = WholeEvents(channel, ConsumedText)

\* C1's failing case reached: a CRLF wire cut between the CR and the LF of its
\* last line end, ending with the frame undecoded
C1_Divergence ==
  /\ cpc = "closed" /\ exitKind = "eof" /\ pos = Len(wire)
  /\ yielded = <<>>
  /\ WholeEvents(channel, wire) # <<>>

\* text with every carriage return removed: a CRLF wire text with LF line ends
WithoutCR(text) == SelectSeq(text, LAMBDA ch : ch # CR)

\* C20: a run that has received the whole wire text, cut into chunks in any
\* way, has yielded the events of the same text with LF line ends
C20_CrlfSameAsLf ==
  (cpc = "closed" /\ (exitKind = "terminator" \/ (exitKind = "eof" /\ pos = Len(wire))))
    => yielded = WholeEvents(channel, WithoutCR(wire))

\* where, counted from 0 in the text received, the first delimiter at or after
\* off begins; -1 when there is none
FrameEnd(off) ==
  LET k == IndexOf(SliceFrom(received, off), <<LF, LF>>)
  IN IF k = -1 THEN -1 ELSE off + k

\* C25: every frame handed to the parser, and so every event made from one,
\* lies in the text received together with its whole two-newline delimiter and
\* is the text between its start and that delimiter; frames are parsed only in
\* a step that received more input, and while the terminator has not been
\* found the buffer holds no delimiter: what follows the last one waits there
C25_OnlyCompleteFrames ==
  /\ [](\A i \in 1..Len(decoded) :
          LET e == FrameEnd(decoded[i].off)
          IN /\ e # -1 /\ e + 2 <= trimmed
             /\ decoded[i].raw = Trim(SliceFrom(Trim(Slice(received, decoded[i].off, e)), 5)))
  /\ [](/\ Len(DecoderEvents) <= Len(decoded)
        /\ \A i \in 1..Len(DecoderEvents) :
              DecoderEvents[i] = EventOf(channel, decoded[i].raw))
  /\ []((cpc # "start" /\ ~shouldStop) => IndexOf(buffer, <<LF, LF>>) = -1)
  /\ [][Len(decoded') > Len(decoded) => Len(received') > Len(received)]_vars

\* one event has been yielded and the next frame has arrived up to the first
\* newline of its delimiter
C25_Witness ==
  /\ cpc = "read" /\ Len(yielded) = 1 /\ Len(decoded) = 1
  /\ Len(buffer) > 6 /\ Last(buffer) = LF
  /\ StartsWith(buffer, DataPrefix)

\* C26: the text received is the text removed from the front of the buffer
\* followed by the buffer; what has been removed ends with a delimiter; a step
\* only appends to the text received and only moves the cut forward, by text
\* that ends with a delimiter
C26_BufferLosesNothing ==
  /\ [](/\ trimmed <= Len(received)
        /\ buffer = SliceFrom(received, trimmed)
        /\ trimmed > 0 => Slice(received, trimmed - 2, trimmed) = <<LF, LF>>)
  /\ [][/\ IsPrefix(received, received')
        /\ trimmed' >= trimmed
        /\ trimmed' > trimmed =>
              /\ trimmed' >= trimmed + 2
              /\ Slice(received', trimmed' - 2, trimmed') = <<LF, LF>>
              /\ IsPrefix(Slice(received', trimmed, trimmed'), buffer \o SliceFrom(received', Len(received)))]_vars

\* a frame has been removed, the terminator found, and the frame that came
\* after the terminator is still in the buffer
C26_Witness ==
  /\ cpc = "closed" /\ exitKind = "terminator"
  /\ trimmed > 0 /\ Len(decoded) = 1
  /\ buffer # <<>> /\ StartsWith(buffer, DataPrefix)

\* C3: once reader.read() has rejected, exactly one event follows the events
\* of the frames decoded before it; it is the last one, of type error, and it
\* carries the rejection's message; nothing decoded earlier is still unyielded.
C3_ReadFailureYieldsOneError ==
  failure # "" =>
    /\ exitKind = "failure"
    /\ cpc \in {"catchYield", "cancel", "closed"}
    /\ pending = <<>>
    /\ Len(yielded) = Len(decoded) + 1
    /\ Last(yielded) = [type |-> "error", data |-> "", message |-> failure, raw |-> NoRaw]

C3_Witness ==
  /\ failure = "terminated"
  /\ cpc = "closed"
  /\ Len(yielded) = 2
  /\ yielded[1].type = "question_chunk"
  /\ buffer # <<>>

C5_OrderedBeforeNextPull ==
  /\ \A i, j \in 1..Len(decoded) : i < j => decoded[i].off < decoded[j].off
  /\ Len(DecoderEvents) <= Len(decoded)
  /\ \A i \in 1..Len(DecoderEvents) : DecoderEvents[i] = EventOf(channel, decoded[i].raw)
  /\ cpc = "read" => (pending = <<>> /\ Len(yielded) = Len(decoded))

C5_Witness ==
  /\ cpc = "read"
  /\ Len(yielded) = 2
  /\ yielded[1].type = "question_chunk"
  /\ yielded[2].type = "error"
  /\ decoded[1].off = 0 /\ decoded[2].off > 0

\* C6 as claimed: after the terminator a last decode pass runs over the bytes
\* still buffered, so that a finished run leaves no decodable frame behind.
C6_FinalPassAfterTerminator ==
  (cpc = "closed" /\ exitKind = "terminator")
    => collectEvents(channel, buffer, trimmed).events = <<>>

\* C6 amended: once a decode pass has found the terminator, the events of the
\* frames before it are yielded and then the consumer stops: it neither pulls
\* from the byte-source nor decodes again, the bytes buffered after the
\* terminator stay undecoded.
C6_StopsAtTerminator ==
  /\ [](exitKind = "terminator" => (shouldStop /\ yielded = DecoderEvents
                                     /\ Len(yielded) = Len(decoded)))
  /\ [][shouldStop => (pos' = pos /\ buffer' = buffer /\ decoded' = decoded
                        /\ trimmed' = trimmed /\ cpc' # "read")]_vars

C6_Witness ==
  /\ cpc = "closed" /\ exitKind = "terminator"
  /\ Len(yielded) = 1
  /\ collectEvents(channel, buffer, trimmed).events # <<>>

\* C7: a frame whose body is not valid JSON gives exactly one event, the
\* parse-error event carrying the body text; decoding goes on behind it: every
\* frame handed to the parser has its one event at the same position, and no
\* complete frame is left in the buffer unless the terminator was found.
C7_MalformedFrameRecovered ==
  /\ exitKind # "abandon" => Len(DecoderEvents) = Len(decoded)
  /\ \A i \in 1..Len(DecoderEvents) :
        ~JSONParse(decoded[i].raw).ok =>
           DecoderEvents[i] = [type |-> "error", data |-> "",
                               message |-> "Failed to parse stream event",
                               raw |-> [type |-> "", data |-> "", text |-> decoded[i].raw]]
  /\ (cpc \notin {"start"} /\ ~shouldStop) => IndexOf(buffer, Delimiter) = -1
  /\ exitKind = "failure" => failure \in ReadFailures

C7_Witness ==
  /\ cpc = "yield" /\ pending = <<>>
  /\ Len(yielded) = 2
  /\ ~JSONParse(decoded[1].raw).ok
  /\ yielded[1].message = "Failed to parse stream event"
  /\ yielded[2].type = "question_chunk"

C9_NeverSilentlyUnterminated ==
  (cpc = "closed" /\ exitKind \in {"eof", "failure"})
    => (yielded # <<>> /\ Last(yielded).type = "error")

\* C9's failing case reached: end-of-input with an incomplete frame buffered
\* and a content event as the last event yielded
C9_Divergence ==
  /\ cpc = "closed" /\ exitKind = "eof"
  /\ buffer # <<>>
  /\ yielded # <<>> /\ Last(yielded).type = "question_chunk"

\* C32: a stream whose source keeps answering and whose caller keeps pulling
\* completes, and a completed stream yields nothing more
C32_SequenceIsFinite ==
  /\ <>(cpc = "closed")
  /\ [][cpc = "closed" => (cpc' = "closed" /\ yielded' = yielded)]_vars

\* the stream completed after an end-of-input that left events to yield
C32_Witness ==
  /\ cpc = "closed" /\ exitKind = "eof"
  /\ phase = "final" /\ yielded # <<>>

-----------------------------------------------------------------------------
(* Properties of the channel producer *)

Terminators == {i \in 1..Len(out) : out[i] = Done}

\* C2: on every exit path of generate_stream (question streamed, failure while
\* opening, exception while generating) the terminator is emitted exactly once
\* and is the last frame; before the generator has finished no frame follows a
\* terminator, and the generator finishes from its closing state only.
C2_TerminatorExactlyOnce ==
  /\ [](ppc = "closed" => (Cardinality(Terminators) = 1 /\ Last(out) = Done))
  /\ [](ppc # "closed" => Terminators = {})
  /\ [][(ppc # "closed" /\ ppc' = "closed") => (ppc = "closing" /\ out' = Append(out, Done))]_vars
  /\ [][ppc = "closed" => out' = out]_vars

C2_Witness ==
  /\ ppc = "closed"
  /\ Len(out) = 4
  /\ out[2].type = "question_chunk"
  /\ out[3].type = "error"
  /\ out[4] = Done

\* the content fields of the question_chunk frames of frames, concatenated
RECURSIVE ChunkSum(_)
ChunkSum(frames) ==
  IF frames = <<>> THEN <<>>
  ELSE (IF Head(frames).type = "question_chunk" THEN Head(frames).content ELSE <<>>)
       \o ChunkSum(Tail(frames))

\* C16: the total_content of a question_complete frame equals the concatenation
\* of the content fields of the question_chunk frames emitted before it
C16_ChunksSumToTotal ==
  \A i \in 1..Len(out) :
     out[i].type = "question_complete" =>
        out[i].content = ChunkSum(SubSeq(out, 1, i - 1))

\* C16 up to surrounding whitespace: total_content is the concatenation stripped
C16_ChunksSumToTotalStripped ==
  \A i \in 1..Len(out) :
     out[i].type = "question_complete" =>
        out[i].content = Strip(ChunkSum(SubSeq(out, 1, i - 1)))

\* no error frame has been emitted
SuccessPath == \A i \in 1..Len(out) : out[i].type # "error"

\* C21: on the success path of the start channel the first frame, and only the
\* first, is session_started with the session id; only question_chunk frames
\* stand between it and question_complete; the terminator comes directly after
\* question_complete and is the last frame, so there is one question_complete
\* and no question_chunk after it
C21_StartOrder ==
  (endpoint = "start" /\ SuccessPath) =>
     /\ \A i \in 1..Len(out) :
           /\ (i = 1) <=> (out[i].type = "session_started")
           /\ out[i].type = "session_started" => out[i].content # <<>>
           /\ out[i].type = "question_chunk" =>
                 \A j \in 2..(i - 1) : out[j].type = "question_chunk"
           /\ out[i].type = "question_complete" =>
                 \A j \in 2..(i - 1) : out[j].type = "question_chunk"
           /\ out[i] = Done =>
                 (i = Len(out) /\ i > 1 /\ out[i - 1].type = "question_complete")
     /\ ppc = "closed" => Last(out) = Done

\* a finished start turn with two chunks
C21_Witness ==
  /\ endpoint = "start" /\ SuccessPath /\ ppc = "closed"
  /\ Len(out) = 5
  /\ out[2].type = "question_chunk" /\ out[3].type = "question_chunk"
  /\ out[4].type = "question_complete"
  /\ out[5] = Done

NotFoundFrame == SerializeEvent("error", SessionNotFound)

\* C22: a respond turn whose session is not found emits the error frame and
\* then the terminator and nothing else; the consumer that has received that
\* body yields the one error event and ends at the terminator, its source
\* released, having thrown nothing
C22_SessionNotFound ==
  /\ (endpoint = "respond" /\ out # <<>> /\ out[1] = NotFoundFrame) =>
        /\ IsPrefix(out, <<NotFoundFrame, Done>>)
        /\ ppc = "closed" => out = <<NotFoundFrame, Done>>
  /\ (wire = BodyOf(<<NotFoundFrame, Done>>) /\ cpc = "closed" /\ failure = ""
        /\ pos = Len(wire)) =>
        /\ yielded = <<Event("error", "nf")>>
        /\ DataObject(yielded[1].data) = [field |-> "message", value |-> SessionNotFound]
        /\ exitKind = "terminator"
        /\ cancelled /\ aborted

\* the refused turn has been read to its end
C22_Witness ==
  /\ out = <<NotFoundFrame, Done>>
  /\ wire = BodyOf(out) /\ pos = Len(wire)
  /\ cpc = "closed" /\ exitKind = "terminator"
  /\ yielded = <<Event("error", "nf")>>

\* the position of a channel state in OPENING -> STREAMING -> CLOSING -> CLOSED
StateRank(st) ==
  CASE st = "opening" -> 0
    [] st = "streaming" -> 1
    [] st = "closing" -> 2
    [] OTHER -> 3

\* C31: the producer's state never moves backward, and an error frame is
\* followed by the terminator and by nothing else
C31_ErrorEndsChannel ==
  /\ [][StateRank(ppc') >= StateRank(ppc)]_vars
  /\ [](\A i \in 1..Len(out) :
          out[i].type = "error" =>
             /\ i >= Len(out) - 1
             /\ (i < Len(out) => out[Len(out)] = Done))

\* the LLM stream raised after a fragment: chunk, error, terminator
C31_Witness ==
  /\ ppc = "closed"
  /\ Len(out) >= 3
  /\ out[Len(out) - 2].type = "question_chunk"
  /\ out[Len(out) - 1].type = "error"
  /\ out[Len(out)] = Done

-----------------------------------------------------------------------------
(* Properties of playback *)

\* C10: charIndexRef.current never exceeds the length of contentRef.current,
\* under every interleaving of content, isStreaming and speed updates and ticks.
C10_RevealedWithinSource ==
  charIndexRef <= Len(contentRef)

\* the reveal has caught up with a content of two letters while the interval
\* keeps firing
C10_Witness ==
  /\ stage = "mounted" /\ isStreaming /\ timer # 0
  /\ Len(contentRef) = 2
  /\ charIndexRef = 2
  /\ displayed = contentRef

\* C11: while the component is mounted and streaming, the interval is running,
\* and once it has fired as many times as the content is long since content and
\* isStreaming last changed, charIndexRef equals the content's length and stays
\* equal to it
C11_RevealCatchesUp ==
  (stage = "mounted" /\ isStreaming) =>
     /\ timer # 0
     /\ ticks >= Len(content) => charIndexRef = Len(content)

\* three letters revealed by the interval alone after the content grew
C11_Witness ==
  /\ stage = "mounted" /\ isStreaming
  /\ Len(content) = 3
  /\ ticks >= 2
  /\ charIndexRef = 3
  /\ displayed = content

\* C13: once the caller has ended the iteration (iterator.return(), at a
\* yielded event or while a read is pending), no event is yielded any more and
\* no further read is issued on the byte-source
C13_ReleasedWithinOnePull ==
  [][(returnQueued \/ exitKind = "abandon") =>
       (yielded' = yielded /\ cpc' # "read")]_vars

\* C18: onStreamComplete is called only when the tick-driven reveal had
\* already reached the end of the text: a commit that ends streaming with the
\* text unchanged gives the signal only if charIndexRef = Len(content) before it
C18_SignalAfterCatchUp ==
  [][(completions' > completions /\ content' = content) =>
        charIndexRef = Len(content)]_vars

\* C19: a commit that, while streaming goes on, replaces the text by one
\* shorter than charIndexRef leaves charIndexRef at the new text's length
C19_ClampToShorterText ==
  [][(stage = "mounted" /\ isStreaming /\ isStreaming' /\ speed' = speed
        /\ Len(content') < charIndexRef) =>
        charIndexRef' = Len(content')]_vars

StaysStreaming ==
  stage = "mounted" /\ stage' = "mounted" /\ isStreaming /\ isStreaming' /\ speed' = speed

TickRevealsOne ==
  [][Tick =>
       /\ charIndexRef' = IF charIndexRef < Len(contentRef)
                          THEN charIndexRef + 1 ELSE charIndexRef
       /\ displayed' = IF charIndexRef < Len(contentRef)
                       THEN SubSeq(contentRef, 1, charIndexRef + 1) ELSE displayed
       /\ UNCHANGED <<contentRef, timer, intervalRef, completions>>]_vars

\* C28 as claimed: each tick reveals one character while one is left and
\* nothing otherwise, and between two consecutive ticks while streaming no more
\* than one character is revealed
C28_OneStepPerTick ==
  /\ TickRevealsOne
  /\ [][Tick => sinceTick <= 1]_vars

\* C28 amended: each tick reveals one character while one is left and nothing
\* otherwise, and while isStreaming stays true and speed is unchanged nothing
\* but a tick reveals a character
C28_OneStepPerTickFixedSpeed ==
  /\ TickRevealsOne
  /\ [][(StaysStreaming /\ charIndexRef' > charIndexRef) => Tick]_vars

\* the text of two characters is revealed and a further tick has changed
\* nothing
C28_Witness ==
  /\ stage = "mounted" /\ isStreaming /\ timer # 0
  /\ Len(contentRef) = 2 /\ charIndexRef = 2
  /\ ticks = 2 /\ sinceTick = 0

\* playback is stopped: isStreaming is false, or the component is unmounted
Stopped == stage = "unmounted" \/ (stage = "mounted" /\ ~isStreaming)

\* C29: while playback is stopped no interval is running, so no step is the
\* interval's callback; and a step from stopped to stopped with the same
\* content (a further commit that is not streaming, or the unmount of a
\* component that is not streaming) leaves the timer, charIndexRef, the
\* displayed text and the count of completion calls as they are
C29_StopHaltsTicking ==
  /\ [](Stopped => (timer = 0 /\ intervalRef = 0))
  /\ [][Stopped => ~Tick]_vars
  /\ [][(Stopped /\ Stopped' /\ content' = content) =>
          UNCHANGED <<timer, intervalRef, charIndexRef, displayed, completions>>]_vars

\* unmounted in the middle of a reveal
C29_Witness ==
  /\ stage = "unmounted" /\ isStreaming
  /\ charIndexRef = 1 /\ Len(contentRef) = 3
  /\ timer = 0

\* C38: once the effects of a commit have run, the text on display is the
\* first charIndexRef characters of the current content
C38_DisplayedIsPrefix ==
  stage = "mounted" =>
     /\ contentRef = content
     /\ charIndexRef <= Len(content)
     /\ displayed = SubSeq(content, 1, charIndexRef)

\* C38 on the commits that leave the characters already revealed as they were
C38_DisplayedIsPrefixOfGrowingText ==
  [][(stage = "mounted" /\ stage' = "mounted"
        /\ displayed = SubSeq(content, 1, charIndexRef)
        /\ IsPrefix(SubSeq(content, 1, charIndexRef), content'))
      => displayed' = SubSeq(content', 1, charIndexRef')]_vars

-----------------------------------------------------------------------------
(* Properties of a page turn *)

\* the handler has seen its streaming attempt fail: the call that opens the
\* stream threw, or the event it handled last was an error event
StreamAttemptFailed ==
  \/ streamRequests = 1 /\ cpc = "start"
  \/ yielded # <<>> /\ Last(yielded).type = "error" /\ gpc # "streaming"

HelloEvents ==
  <<Event("session_started", "s1"), Event("question_chunk", "Hel"),
    Event("question_chunk", "lo"), Event("question_complete", "Hello"),
    Event("interview_complete", "f")>>

\* the stream was opened and neither a read failed nor the source ended
\* before the terminator
FullyDelivered == cpc # "start" /\ failure = "" /\ ~srcDone

\* C14: when HelloWire is delivered, the consumer yields its five events in
\* order and no error event, and the turn ends with streamingQuestion = 'Hello'
C14_HelloTurn ==
  (wire = HelloWire /\ FullyDelivered) =>
     /\ IsPrefix(yielded, HelloEvents)
     /\ gpc = "done" => (yielded = HelloEvents /\ streamingQuestion = Hello)

\* C14, on the channel of handleAnswerSubmit alone
C14_HelloTurnAnswer ==
  turn = "answer" => C14_HelloTurn

\* C14, on the channel of handleStartInterview alone
C14_HelloTurnStart ==
  turn = "start" => C14_HelloTurn

\* a start turn whose byte-source failed after session_started had been
\* yielded and before any question_chunk was
FailedAfterSessionStarted ==
  /\ turn = "start"
  /\ failure # ""
  /\ yielded # <<>> /\ yielded[1].type = "session_started"
  /\ \A i \in 1..Len(yielded) : yielded[i].type # "question_chunk"

\* C15: in such a turn the consumer yields session_started and the one error
\* event made from the failure, and has ended before the synchronous request
\* is issued; the request is issued once, and when it has resolved the session
\* id is set, the current question is the returned prompt, nothing is
\* streaming or processing and there is no error message
C15_FailureAfterSessionStarted ==
  FailedAfterSessionStarted =>
     /\ yielded = <<Event("session_started", "s1"), CatchEvent(failure)>>
     /\ gpc \in {"streaming", "throwing", "fallback", "done"}
     /\ gpc \in {"fallback", "done"} =>
           (cpc = "closed" /\ cancelled /\ aborted /\ fallbackRequests = 1)
     /\ (gpc = "done" /\ ~fallbackFailed) =>
           /\ sessionId = FallbackSession
           /\ currentQuestion = FallbackPrompt
           /\ streamingQuestion = FallbackPrompt
           /\ ~isStreamingQuestion
           /\ ~isProcessing
           /\ errorMessage = <<>>

\* the failure came while the second frame was arriving, and the synchronous
\* request has resolved
C15_Witness ==
  /\ FailedAfterSessionStarted
  /\ pos > Len(FrameBytes("S1")) + 2
  /\ gpc = "done" /\ ~fallbackFailed
  /\ sessionId = FallbackSession

\* the handler is about to handle a question_complete event that carries a
\* total_content field
AtQuestionComplete ==
  /\ gpc = "streaming" /\ cpc = "yield"
  /\ Last(yielded).type = "question_complete"
  /\ DataObject(Last(yielded).data).field = "total_content"

C24_NeverHangs ==
  (turn = "console" /\ consoleStreaming) ~> ~consoleStreaming

\* the handler took an error event from the stream and has issued the
\* synchronous request
FallbackAfterErrorEvent ==
  /\ turn \in {"start", "answer"}
  /\ gpc \in {"fallback", "done"} /\ fallbackRequests = 1
  /\ yielded # <<>> /\ Last(yielded).type = "error"

\* C30: from the moment the synchronous request is issued after an error event
\* nothing is streaming and the text streamed so far is gone; once the request
\* has been answered with a prompt, streamingQuestion is that prompt
C30_FallbackDiscardsPartial ==
  /\ (FallbackAfterErrorEvent /\ gpc = "fallback") =>
        (~isStreamingQuestion /\ streamingQuestion = <<>>)
  /\ (FallbackAfterErrorEvent /\ gpc = "done" /\ ~fallbackFailed /\ ~feedback) =>
        (~isStreamingQuestion /\ streamingQuestion \in {<<>>, FallbackPrompt})

\* the second half of C30 alone: what the page shows once the synchronous
\* request has been answered
C30_AfterFallbackAnswered ==
  (FallbackAfterErrorEvent /\ gpc = "done" /\ ~fallbackFailed /\ ~feedback) =>
     (~isStreamingQuestion /\ streamingQuestion \in {<<>>, FallbackPrompt})

\* C33: once the cancel function of the callback-style stream has been called
\* while the stream is open, no callback runs: the turn stays where it is and
\* no synchronous request is issued
C33_CancelSilencesCallbacks ==
  [][(turn = "console" /\ gpc = "cread" /\ consoleAborted /\ ~finished) =>
        (gpc' = gpc /\ fallbackRequests' = fallbackRequests)]_vars

\* C34: the callback-style stream calls onComplete or onError at most once
\* in all
C34_OneTerminalCallback ==
  turn = "console" => Len(consoleCalls) <= 1

\* an answer's turn is over and one of its requests was answered
AnswerTurnOver ==
  /\ turn \in {"answer", "console"}
  /\ gpc = "done" /\ ~fallbackFailed

\* C35: an answered turn has appended one interviewer entry followed by one
\* candidate entry, and no turn appends more than that
C35_OnePairPerAnswer ==
  /\ Len(history) <= 2
  /\ AnswerTurnOver => history = <<"interviewer", "candidate">>

\* C35 on the turns in which the stream did not call onError after onComplete
C35_OnePairUnlessBothCallbacks ==
  consoleCalls # <<"complete", "error">> =>
     /\ Len(history) <= 2
     /\ AnswerTurnOver => history = <<"interviewer", "candidate">>

\* C36: when handleStartInterview has run to its end nothing is being
\* processed and nothing is streaming
C36_StartTurnEndsIdle ==
  (turn = "start" /\ gpc = "done") => (~isProcessing /\ ~isStreamingQuestion)

\* C36 on the turns that did not end the stream without a session or without
\* a question
C36_StartTurnEndsIdleWithQuestion ==
  (turn = "start" /\ gpc = "done"
     /\ (fallbackRequests = 1 \/ (currentSessionId # <<>> /\ latestQuestion # <<>>)))
  => (~isProcessing /\ ~isStreamingQuestion)

C39_RetryAfterBothFail ==
  (turn = "answer" /\ gpc = "done" /\ fallbackFailed) =>
     (sessionId # <<>> /\ CanBegin)

====
